---------------------------- MODULE Spec2Model ----------------------------
(***************************************************************************)
(* The option store of cmdr (type Options): a flat map from dotted keys to *)
(* values (entries) and a nested map mirroring it (hierarchy), guarded by  *)
(* one sync.RWMutex.                                                       *)
(*                                                                         *)
(* A Go string is a sequence of one-character strings, so that             *)
(* strings.Split, strings.Join and fmt.Sprintf are computed, not assumed.  *)
(* A Go interface{} value is a record tagged by its dynamic type.          *)
(***************************************************************************)
EXTENDS Integers, Sequences, FiniteSets, TLC

\* ------------------------------------------------------------------ bounds

\* Number of store operations one behaviour of Spec performs.
MaxOps == 3
\* Integer values stored: 1..MaxVal.
MaxVal == 2
\* Number of concurrent callers (goroutines) in SpecConc.
NumProcs == 2

\* ----------------------------------------------------------------- strings

Dot == "."

\* strings.Index(s, "."): the first position of a dot, 0 when there is none.
IndexDot(s) ==
    IF \E i \in 1..Len(s) : s[i] = Dot
    THEN CHOOSE i \in 1..Len(s) : s[i] = Dot /\ \A j \in 1..(i - 1) : s[j] # Dot
    ELSE 0

\* A Split that drops the empty segments (nothing is left of an empty key).
RECURSIVE Split_DropsEmpty(_)
Split_DropsEmpty(s) ==
    LET i == IndexDot(s)
    IN  IF i = 0 THEN (IF Len(s) = 0 THEN <<>> ELSE <<s>>)
        ELSE (IF i = 1 THEN <<>> ELSE <<SubSeq(s, 1, i - 1)>>)
                 \o Split_DropsEmpty(SubSeq(s, i + 1, Len(s)))

\* strings.Split(key, "."): always at least one segment, empty segments kept.
RECURSIVE Split(_)
Split(s) ==
    LET i == IndexDot(s)
    IN  IF i = 0 THEN <<s>>
        ELSE <<SubSeq(s, 1, i - 1)>> \o Split(SubSeq(s, i + 1, Len(s)))

\* strings.Join(a, ".")
RECURSIVE Join(_)
Join(a) ==
    IF Len(a) = 0 THEN <<>>
    ELSE IF Len(a) = 1 THEN a[1]
    ELSE a[1] \o <<Dot>> \o Join(Tail(a))

\* strings.HasPrefix(s, p)
HasPrefix(s, p) == Len(s) >= Len(p) /\ SubSeq(s, 1, Len(p)) = p

\* ------------------------------------------------------------------ values

\* The nil interface value.
Nil == [k |-> "nil"]
\* A nil map[string]interface{} (what getMap returns for a missing path).
NilMap == [k |-> "nilmap"]
IntV(i) == [k |-> "int", i |-> i]
StrV(s) == [k |-> "str", s |-> s]
BoolV(b) == [k |-> "bool", b |-> b]
\* []string, []int and []interface{}: l is the sequence of the elements
\* (strings, integers, tagged values).
StrsV(l) == [k |-> "strs", l |-> l]
IntsV(l) == [k |-> "ints", l |-> l]
ListV(l) == [k |-> "list", l |-> l]
\* map[string]interface{}: m is a function from strings to values.
MapV(m) == [k |-> "map", m |-> m]
\* map[interface{}]interface{}: m is a function from scalar values to values.
IxMapV(m) == [k |-> "ixmap", m |-> m]

\* v.(map[string]interface{}) succeeds
IsMap(v) == v.k = "map"
\* v.(map[interface{}]interface{}) succeeds
IsIxMap(v) == v.k = "ixmap"

EmptyMap == [x \in {} |-> Nil]

\* m[key] = val on a Go map, as a new function.
Put(m, key, val) == [x \in (DOMAIN m) \cup {key} |-> IF x = key THEN val ELSE m[x]]

Restrict(m, S) == [x \in S |-> m[x]]

\* The decimal digits of a natural number (strconv / fmt "%d").
Digit(d) == <<"0", "1", "2", "3", "4", "5", "6", "7", "8", "9">>[d + 1]

RECURSIVE Itoa(_)
Itoa(n) == IF n < 10 THEN <<Digit(n)>> ELSE Itoa(n \div 10) \o <<Digit(n % 10)>>

\* strconv.Itoa(n) and fmt "%v" of an integer: a minus sign for a negative one.
FormatInt(n) == IF n < 0 THEN <<"-">> \o Itoa(0 - n) ELSE Itoa(n)

\* The strings of the sequence a with one space between them (fmt "%v" of a
\* slice, inside the brackets).
RECURSIVE JoinSpace(_)
JoinSpace(a) ==
    IF Len(a) = 0 THEN <<>>
    ELSE IF Len(a) = 1 THEN a[1]
    ELSE a[1] \o <<" ">> \o JoinSpace(Tail(a))

\* fmt.Sprintf("%v", m) for a map: "map[k:v k:v]".  fmt prints the keys
\* sorted; the maps that reach the flat map have a single key.
RECURSIVE SprintMap(_), SprintPairs(_), Sprint(_)
SprintMap(m) == <<"m", "a", "p", "[">> \o SprintPairs(m) \o <<"]">>

\* fmt.Sprintf("%v", v) for the values of the model.
Sprint(v) ==
    CASE v.k = "str" -> v.s
      [] v.k = "int" -> FormatInt(v.i)
      [] v.k = "bool" -> IF v.b THEN <<"t", "r", "u", "e">> ELSE <<"f", "a", "l", "s", "e">>
      [] v.k = "map" -> SprintMap(v.m)
      [] v.k = "strs" -> <<"[">> \o JoinSpace(v.l) \o <<"]">>
      [] v.k = "ints" -> <<"[">> \o JoinSpace([i \in 1..Len(v.l) |-> FormatInt(v.l[i])]) \o <<"]">>
      [] v.k = "list" -> <<"[">> \o JoinSpace([i \in 1..Len(v.l) |-> Sprint(v.l[i])]) \o <<"]">>
      [] OTHER       -> <<"<", "n", "i", "l", ">">>

SprintPairs(m) ==
    IF DOMAIN m = {} THEN <<>>
    ELSE LET k == CHOOSE x \in DOMAIN m : TRUE
             rest == Restrict(m, (DOMAIN m) \ {k})
         IN  k \o <<":">> \o Sprint(m[k])
               \o (IF DOMAIN rest = {} THEN <<>> ELSE <<" ">> \o SprintPairs(rest))

\* ------------------------------------------------------------ key prefixes

\* RxxtPrefix, default ["app"].
RxxtPrefix == << <<"a", "p", "p">> >>

\* A wrapWithRxxtPrefix that returns the key as it is.
wrapWithRxxtPrefix_KeepsKey(key) == key

\* wrapWithRxxtPrefix(key)
wrapWithRxxtPrefix(key) ==
    IF Len(RxxtPrefix) = 0 THEN key
    ELSE LET p == Join(RxxtPrefix)
         IN  IF Len(key) = 0 THEN p ELSE p \o <<Dot>> \o key

\* An mx that drops the prefix.
mx_NoPrefix(pre, k) == k

\* mx(pre, k)
mx(pre, k) == IF Len(pre) = 0 THEN k ELSE pre \o <<Dot>> \o k

\* mxIx(pre, k): the key k is any scalar and is formatted with %v.
mxIx(pre, k) == IF Len(pre) = 0 THEN Sprint(k) ELSE pre \o <<Dot>> \o Sprint(k)

\* ---------------------------------------------------------------- the tree

\* et(keys, ix, val): the chain of one-key maps for keys[ix..], ending in val.
\* (ix is 1-based here; the Go code calls et(a, 1, val) on a 0-based slice.)
RECURSIVE et(_, _, _)
et(keys, ix, val) ==
    IF ix <= Len(keys)
    THEN MapV([x \in {keys[ix]} |-> et(keys, ix + 1, val)])
    ELSE val

\* A mergeMap that leaves a node that is there as it is.
mergeMap_KeepsNode(m, key, val) == IF key \in DOMAIN m THEN m ELSE Put(m, key, val)

\* A mergeMap that assigns the new map over the old one instead of merging.
mergeMap_Replace(m, key, val) == Put(m, key, val)

\* mergeMap(m, key, val), and the range loop over vm inside it.
RECURSIVE mergeMap(_, _, _), mergeRange(_, _)
mergeMap(m, key, val) ==
    IF key \in DOMAIN m
    THEN IF IsMap(m[key])
         THEN IF IsMap(val)
              THEN Put(m, key, MapV(mergeRange(m[key].m, val.m)))
              ELSE Put(m, key, val)
         ELSE Put(m, key, val)
    ELSE Put(m, key, val)

mergeRange(zm, vm) ==
    IF DOMAIN vm = {} THEN zm
    ELSE LET k == CHOOSE x \in DOMAIN vm : TRUE
         IN  mergeRange(mergeMap(zm, k, vm[k]), Restrict(vm, (DOMAIN vm) \ {k}))

\* A getMap that answers nil where the path ends at a leaf.
RECURSIVE getMap_LeafIsNil(_, _, _)
getMap_LeafIsNil(vp, key, remains) ==
    IF Len(remains) > 0
    THEN IF key \in DOMAIN vp /\ IsMap(vp[key])
         THEN getMap_LeafIsNil(vp[key].m, remains[1], Tail(remains))
         ELSE NilMap
    ELSE IF key \in DOMAIN vp /\ IsMap(vp[key]) THEN vp[key] ELSE NilMap

\* Options.getMap(vp, key, remains...)
RECURSIVE getMap(_, _, _)
getMap(vp, key, remains) ==
    IF Len(remains) > 0
    THEN IF key \in DOMAIN vp /\ IsMap(vp[key])
         THEN getMap(vp[key].m, remains[1], Tail(remains))
         ELSE NilMap
    ELSE IF key \in DOMAIN vp
         THEN IF IsMap(vp[key]) THEN vp[key] ELSE MapV(vp)
         ELSE NilMap

\* Options.getMapNoLock(key) on the tree h.
getMapNoLock(h, key) ==
    LET a == Split(key)
    IN  IF Len(a) > 0 THEN getMap(h, a[1], Tail(a)) ELSE NilMap

\* --------------------------------------------------------------- the store

\* A store value: the two maps of an Options.
Store(e, h) == [entries |-> e, hierarchy |-> h]

\* NewOptions(): both maps made empty.
NewOptions == Store(EmptyMap, EmptyMap)

\* A Get that falls back to the key wrapped with the prefix.
Get_TriesWrappedKey(e, key) ==
    IF key \in DOMAIN e THEN e[key]
    ELSE IF wrapWithRxxtPrefix(key) \in DOMAIN e THEN e[wrapWithRxxtPrefix(key)]
    ELSE [k |-> "nil"]

\* Options.Get(key) on the flat map e: s.entries[key], nil when absent.
Get(e, key) == IF key \in DOMAIN e THEN e[key] ELSE Nil

\* A SetNx without its early return: a nil is stored like any other value.
nilGuard_Absent(h, key, val) == FALSE

\* The early return of SetNx: val == nil and getMapNoLock(key) != nil.
nilGuard(h, key, val) == val = Nil /\ getMapNoLock(h, key) # NilMap

\* A SetNx that takes a nil for a key of the flat map as "remove the key".
SetNxOn_NilDeletes(s, key, val) ==
    IF val = Nil /\ key \in DOMAIN s.entries
    THEN Store(Restrict(s.entries, (DOMAIN s.entries) \ {key}), s.hierarchy)
    ELSE LET a == Split(key)
         IN  Store(Put(s.entries, key, val),
                   mergeMap(s.hierarchy, a[1], et(a, 2, val)))

\* The body of Options.SetNx(key, val) between Lock and Unlock.
SetNxOn(s, key, val) ==
    IF nilGuard(s.hierarchy, key, val)
    THEN s
    ELSE LET a == Split(key)
         IN  Store(Put(s.entries, key, val),
                   mergeMap(s.hierarchy, a[1], et(a, 2, val)))

\* The index expression a[0] of SetNx panics when the key has no segment.
SetNxPanics(key) == Len(Split(key)) = 0

\* Options.Set(key, val)
SetOn(s, key, val) == SetNxOn(s, wrapWithRxxtPrefix(key), val)

\* A Reset that remakes both maps.
ResetOn_BothMaps(s) == Store(EmptyMap, EmptyMap)

\* A Reset that remakes nothing.
ResetOn_KeepsEntries(s) == s

\* The body of Options.Reset(): entries remade empty, hierarchy not assigned.
ResetOn(s) == Store(EmptyMap, s.hierarchy)

\* ------------------------------------------------------ document ingestion

\* Options.loopMap(kdot, m) and Options.loopIxMap(kdot, m) on store s.  A Go
\* range over a map visits the keys in an unspecified order: the result is the
\* set of stores the loop can end in, one per order.
RECURSIVE loopMap(_, _, _), loopIxMap(_, _, _)
loopMap(s, kdot, m) ==
    IF DOMAIN m = {} THEN {s}
    ELSE UNION { LET v == m[k]
                     after == IF IsIxMap(v) THEN loopIxMap(s, mx(kdot, k), v.m)
                              ELSE IF IsMap(v) THEN loopMap(s, mx(kdot, k), v.m)
                              ELSE {SetNxOn(s, mx(kdot, k), v)}
                 IN  UNION { loopMap(s2, kdot, Restrict(m, (DOMAIN m) \ {k}))
                             : s2 \in after }
               : k \in DOMAIN m }

loopIxMap(s, kdot, m) ==
    IF DOMAIN m = {} THEN {s}
    ELSE UNION { LET v == m[k]
                     after == IF IsIxMap(v) THEN loopIxMap(s, mxIx(kdot, k), v.m)
                              ELSE {SetNxOn(s, mxIx(kdot, k), v)}
                 IN  UNION { loopIxMap(s2, kdot, Restrict(m, (DOMAIN m) \ {k}))
                             : s2 \in after }
               : k \in DOMAIN m }

\* ------------------------------------------------------------------ inputs

A == <<"a">>
B == <<"b">>
C == <<"c">>
KeyA == <<"a">>
KeyAB == <<"a", ".", "b">>
KeyAC == <<"a", ".", "c">>
KeyAppA == <<"a", "p", "p", ".", "a">>

\* The keys callers pass to Set and SetNx: a key, two keys below it, and a key
\* that already carries the prefix.
InKeys == {KeyA, KeyAB, KeyAC, KeyAppA}

\* The values callers pass: nil and small integers.
InVals == {Nil} \cup {IntV(i) : i \in 1..MaxVal}

\* Decoded documents handed to loopMap.
\* {a: {b: 1, c: 2}}, string keys throughout (a TOML or JSON document).
DocStr == (A :> MapV((B :> IntV(1)) @@ (C :> IntV(2))))
\* {a: {b: 1, 1: 2}}, the inner map keyed by arbitrary scalars (YAML).
DocIx == (A :> IxMapV((StrV(B) :> IntV(1)) @@ (IntV(1) :> IntV(2))))
\* {a: {b: {c: 1}}}, a string-keyed map inside an arbitrary-keyed one.
DocIxStr == (A :> IxMapV((StrV(B) :> MapV((C :> IntV(1))))))
\* {"a.b": 1, a: {b: 2}}, a dotted key beside the nested map of the same path.
DocDotted == (KeyAB :> IntV(1)) @@ (A :> MapV((B :> IntV(2))))

Docs == {DocStr, DocIx, DocIxStr, DocDotted}

\* --------------------------------------------------------------- the state

VARIABLES
    entries,    \* Options.entries: the flat map
    hierarchy,  \* Options.hierarchy: the tree
    op,         \* the last operation performed: [name, key, val]
    pre,        \* the store as it was when that operation started
    done,       \* the names of the operations performed so far
    nops,       \* the number of operations performed
    entriesNil, \* s.entries == nil (inside Reset)
    rw,         \* Options.rw, the sync.RWMutex
    pc,         \* per caller: the operation it is in and its position there
    arg,        \* per caller: the key and value of its pending SetNx
    todo,       \* per caller: the keys its range over s.entries has yet to produce
    live,       \* per caller: its range iterates the map s.entries now refers to
    work,       \* per caller: the SetNx calls its loopMap has yet to make
    snap,       \* per caller: the tree as GetHierarchyList returned it
    fatal,      \* the Go runtime has ended the program (fatal error)
    fsys,       \* the files written by the Save functions and the open file handles
    twin,       \* a second Options, made by NewOptions() when the first was last reset
    help        \* the help screen: the line being printed and the wrapping loop's offset

seqVars == <<op, pre, done, nops>>
concVars == <<entriesNil, rw, pc, arg, todo, live, work, snap, fatal, fsys, twin, help>>
vars == <<entries, hierarchy, op, pre, done, nops, entriesNil, rw, pc, arg, todo, live, work, snap, fatal, fsys, twin, help>>

Procs == 1..NumProcs

store == Store(entries, hierarchy)

Call(name, key, val) == [name |-> name, key |-> key, val |-> val]

\* No caller is inside an operation.
Idle == [op |-> "none", at |-> "idle"]
NoArg == [key |-> <<>>, val |-> Nil]

\* After NewOptions(): both maps empty, the lock free.
Init ==
    /\ entries = EmptyMap
    /\ hierarchy = EmptyMap
    /\ op = Call("NewOptions", <<>>, Nil)
    /\ pre = NewOptions
    /\ done = {}
    /\ nops = 0
    /\ entriesNil = FALSE
    /\ rw = [h |-> 0, readers |-> {}, rwait |-> {}]
    /\ pc = [p \in Procs |-> Idle]
    /\ arg = [p \in Procs |-> NoArg]
    /\ todo = [p \in Procs |-> {}]
    /\ live = [p \in Procs |-> FALSE]
    /\ work = [p \in Procs |-> {}]
    /\ snap = [p \in Procs |-> EmptyMap]
    /\ fatal = FALSE
    /\ fsys = [files |-> [x \in {} |-> <<>>], open |-> {}]
    /\ twin = NewOptions
    /\ help = [at |-> "idle", fn |-> "none", str |-> <<>>, s2w |-> 0, ix |-> 0]

\* One whole operation by a single caller: the store becomes s2.
Step(call, s2) ==
    /\ nops < MaxOps
    /\ ~fatal
    /\ entries' = s2.entries
    /\ hierarchy' = s2.hierarchy
    /\ op' = call
    /\ pre' = store
    /\ done' = done \cup {call.name}
    /\ nops' = nops + 1
    /\ UNCHANGED concVars

\* Options.Set(key, val)
Set == \E key \in InKeys, val \in InVals : Step(Call("Set", key, val), SetOn(store, key, val))

\* Options.SetNx(key, val)
SetNx == \E key \in InKeys, val \in InVals : Step(Call("SetNx", key, val), SetNxOn(store, key, val))

\* Options.Reset()
Reset == Step(Call("Reset", <<>>, Nil), ResetOn(store))

\* Options.loopMap("", doc): a decoded document is ingested.
LoadMap == \E doc \in Docs : \E s2 \in loopMap(store, <<>>, doc) : Step(Call("loopMap", <<>>, MapV(doc)), s2)

\* Options.loopMap("", s.GetHierarchyList()): the exported tree is ingested
\* again, into the same store.
ReloadTree == \E s2 \in loopMap(store, <<>>, hierarchy) : Step(Call("loopMap", <<>>, MapV(hierarchy)), s2)

Next == Set \/ SetNx \/ Reset \/ LoadMap \/ ReloadTree

Spec == Init /\ [][Next]_vars

\* ------------------------------------------------- environment overlay

LowerCase == <<"a", "b", "c", "d", "e", "f", "g", "h", "i", "j", "k", "l", "m",
               "n", "o", "p", "q", "r", "s", "t", "u", "v", "w", "x", "y", "z">>
UpperCase == <<"A", "B", "C", "D", "E", "F", "G", "H", "I", "J", "K", "L", "M",
               "N", "O", "P", "Q", "R", "S", "T", "U", "V", "W", "X", "Y", "Z">>

\* strings.ToUpper(s)
ToUpper(s) ==
    [i \in 1..Len(s) |->
        IF \E j \in 1..26 : LowerCase[j] = s[i]
        THEN UpperCase[CHOOSE j \in 1..26 : LowerCase[j] = s[i]]
        ELSE s[i]]

\* A ReplaceAll that replaces nothing.
ReplaceAll_Nothing(s, old, new) == s

\* strings.ReplaceAll(s, old, new) for one-character old and new.
ReplaceAll(s, old, new) == [i \in 1..Len(s) |-> IF s[i] = old THEN new ELSE s[i]]

\* strings.Join(a, "_")
RECURSIVE JoinUnderscore(_)
JoinUnderscore(a) ==
    IF Len(a) = 0 THEN <<>>
    ELSE IF Len(a) = 1 THEN a[1]
    ELSE a[1] \o <<"_">> \o JoinUnderscore(Tail(a))

\* EnvPrefix: the prefix segments of environment-variable names.
EnvPrefix == << <<"A", "P", "P">> >>

\* Options.envKey(key)
envKey(key) ==
    JoinUnderscore(Append(EnvPrefix, ToUpper(ReplaceAll(ReplaceAll(key, ".", "_"), "-", "_"))))

\* The process environment os.LookupEnv reads: APP_A=1 and APP_APP_A=1.
Environ ==
    (<<"A", "P", "P", "_", "A">> :> <<"1">>)
        @@ (<<"A", "P", "P", "_", "A", "P", "P", "_", "A">> :> <<"1">>)

\* The key buildAutomaticEnv passes to Set for the flat key: key[len(p)+1:]
\* when key starts with the dotted prefix p (a slice expression that panics
\* when key is shorter than len(p)+1), key itself otherwise.
overlayKey(key) ==
    LET p == Join(RxxtPrefix)
    IN  IF HasPrefix(key, p)
        THEN IF Len(p) + 1 > Len(key)
             THEN [panic |-> TRUE, key |-> <<>>]
             ELSE [panic |-> FALSE, key |-> SubSeq(key, Len(p) + 2, Len(key))]
        ELSE [panic |-> FALSE, key |-> key]

\* The environments the overlay pass is run in: every set of the variables
\* APP_A, APP_APP_A and APP_APP, each set to "true".
AllEnv ==
    (<<"A", "P", "P", "_", "A">> :> <<"t", "r", "u", "e">>)
        @@ (<<"A", "P", "P", "_", "A", "P", "P", "_", "A">> :> <<"t", "r", "u", "e">>)
        @@ (<<"A", "P", "P", "_", "A", "P", "P">> :> <<"t", "r", "u", "e">>)

Environs == {Restrict(AllEnv, S) : S \in SUBSET DOMAIN AllEnv}

\* The loop of buildAutomaticEnv on the store s, with the keys todo still to
\* be produced by the range over s.entries: the set of outcomes, one per
\* iteration order.  A key that a Set inside the loop adds to the map may or
\* may not be produced later.  An outcome is the store and whether the slice
\* expression key[len(p)+1:] panicked.
RECURSIVE overlayRange(_, _, _)
overlayRange(s, keys, env) ==
    IF keys = {} THEN {[store |-> s, panic |-> FALSE]}
    ELSE UNION { LET rest == keys \ {key}
                 IN  IF envKey(key) \in DOMAIN env
                     THEN IF overlayKey(key).panic
                          THEN {[store |-> s, panic |-> TRUE]}
                          ELSE LET s2 == SetOn(s, overlayKey(key).key, StrV(env[envKey(key)]))
                                   added == (DOMAIN s2.entries) \ (DOMAIN s.entries)
                               IN  UNION { overlayRange(s2, rest \cup N, env)
                                           : N \in SUBSET added }
                     ELSE overlayRange(s, rest, env)
               : key \in keys }

\* Options.buildAutomaticEnv(rootCmd) by a single caller, in the environment env.
buildAutomaticEnv(s, env) == overlayRange(s, DOMAIN s.entries, env)

\* The keys callers pass before the overlay pass: the empty key, a key, and
\* the same key with the prefix.
EnvKeys == {<<>>, KeyA, KeyAppA}

\* The values callers pass before the overlay pass.
EnvVals == {Nil, BoolV(FALSE), BoolV(TRUE)}

\* Options.Set(key, val), keys and values of the overlay scenario.
SetEnvKey == \E key \in EnvKeys, val \in EnvVals : Step(Call("Set", key, val), SetOn(store, key, val))

\* Options.SetNx(key, val), keys and values of the overlay scenario.
SetNxEnvKey == \E key \in EnvKeys, val \in EnvVals : Step(Call("SetNx", key, val), SetNxOn(store, key, val))

\* Options.buildAutomaticEnv(rootCmd): the whole pass.  An unrecovered panic
\* ends the program.
Overlay ==
    \E env \in Environs : \E r \in buildAutomaticEnv(store, env) :
        /\ nops < MaxOps
        /\ ~fatal
        /\ entries' = r.store.entries
        /\ hierarchy' = r.store.hierarchy
        /\ op' = Call("buildAutomaticEnv", <<>>, [k |-> "env", m |-> env])
        /\ pre' = store
        /\ done' = done \cup {"buildAutomaticEnv"}
        /\ nops' = nops + 1
        /\ fatal' = r.panic
        /\ UNCHANGED <<entriesNil, rw, pc, arg, todo, live, work, snap, fsys, twin, help>>

NextEnv == SetEnvKey \/ SetNxEnvKey \/ Overlay

\* Set and SetNx calls and overlay passes by a single caller.
SpecEnv == Init /\ [][NextEnv]_vars

\* ------------------------------------------------------- typed accessors

\* A ToLower that changes no letter.
ToLower_KeepsCase(s) == s

\* strings.ToLower(s)
ToLower(s) ==
    [i \in 1..Len(s) |->
        IF \E j \in 1..26 : UpperCase[j] = s[i]
        THEN LowerCase[CHOOSE j \in 1..26 : UpperCase[j] = s[i]]
        ELSE s[i]]

\* Options.GetString(key) on the flat map e: the string itself, "" for nil
\* and for an absent key, fmt.Sprintf("%v", v) otherwise.
GetString(e, key) ==
    IF key \in DOMAIN e
    THEN IF e[key].k = "str" THEN e[key].s
         ELSE IF e[key] # Nil THEN Sprint(e[key]) ELSE <<>>
    ELSE <<>>

\* The strings GetBool takes for true.
TrueWords ==
    { <<"1">>, <<"y">>, <<"t">>, <<"y", "e", "s">>, <<"t", "r", "u", "e">>,
      <<"o", "k">>, <<"o", "n">> }

\* Options.GetBool(key) on the flat map e.
GetBool(e, key) == ToLower(GetString(e, key)) \in TrueWords

\* GetR(key): Get with the key wrapped.
GetR(e, key) == Get(e, wrapWithRxxtPrefix(key))

DigitChars == {"0", "1", "2", "3", "4", "5", "6", "7", "8", "9"}

\* The value of a decimal digit.
DigitVal(c) == CHOOSE d \in 0..9 : Digit(d) = c

\* The digits s without their leading zeros (one digit at least stays).
RECURSIVE TrimZeros(_)
TrimZeros(s) == IF Len(s) > 1 /\ s[1] = "0" THEN TrimZeros(Tail(s)) ELSE s

\* a <= b for two digit strings without leading zeros.
RECURSIVE DigitsLeq(_, _)
DigitsLeq(a, b) ==
    IF Len(a) # Len(b) THEN Len(a) < Len(b)
    ELSE IF Len(a) = 0 THEN TRUE
    ELSE IF a[1] # b[1] THEN DigitVal(a[1]) < DigitVal(b[1])
    ELSE DigitsLeq(Tail(a), Tail(b))

\* 1<<64 - 1 and 1<<63, the limits of uint64 and of the magnitude of int64.
MaxUint64 == <<"1", "8", "4", "4", "6", "7", "4", "4", "0", "7", "3", "7", "0", "9",
               "5", "5", "1", "6", "1", "5">>
TwoTo63 == <<"9", "2", "2", "3", "3", "7", "2", "0", "3", "6", "8", "5", "4", "7",
             "7", "5", "8", "0", "8">>

\* An int64 or uint64 result, kept as a sign and the decimal digits of its
\* magnitude, so that values near 1<<63 and 1<<64 are exact.
Num(neg, mag) == [neg |-> neg, mag |-> mag]
Zero == Num(FALSE, <<"0">>)

\* strconv.ParseUint(s, 10, 64): [err, n].  An empty string, a character
\* that is not a digit (a sign too) and a value above 1<<64 - 1 are errors.
ParseUint(s) ==
    IF Len(s) = 0 \/ \E i \in 1..Len(s) : s[i] \notin DigitChars
    THEN [err |-> TRUE, n |-> Zero]
    ELSE IF ~DigitsLeq(TrimZeros(s), MaxUint64)
    THEN [err |-> TRUE, n |-> Zero]
    ELSE [err |-> FALSE, n |-> Num(FALSE, TrimZeros(s))]

\* A ParseInt that takes no sign.
ParseInt_NoSign(s) == ParseUint(s)

\* strconv.ParseInt(s, 10, 64): [err, n].  One leading '+' or '-' is taken
\* off, the rest goes through ParseUint, and a magnitude of 1<<63 or more
\* (more than 1<<63 for a negative number) is a range error.
ParseInt(s) ==
    IF Len(s) = 0 THEN [err |-> TRUE, n |-> Zero]
    ELSE LET neg == s[1] = "-"
             rest == IF s[1] \in {"+", "-"} THEN Tail(s) ELSE s
             un == ParseUint(rest)
         IN  IF un.err THEN [err |-> TRUE, n |-> Zero]
             ELSE IF ~neg /\ DigitsLeq(TwoTo63, un.n.mag) THEN [err |-> TRUE, n |-> Zero]
             ELSE IF neg /\ un.n.mag # TwoTo63 /\ DigitsLeq(TwoTo63, un.n.mag)
                  THEN [err |-> TRUE, n |-> Zero]
             ELSE [err |-> FALSE, n |-> Num(neg /\ un.n # Zero, un.n.mag)]

\* Options.GetInt(key) on the flat map e: 0 when ParseInt reports an error.
GetInt(e, key) ==
    LET r == ParseInt(GetString(e, key)) IN IF ~r.err THEN r.n ELSE Zero

\* Options.GetUint(key) on the flat map e: 0 when ParseUint reports an error.
GetUint(e, key) ==
    LET r == ParseUint(GetString(e, key)) IN IF ~r.err THEN r.n ELSE Zero

\* A Split that does not split.
SplitComma_Whole(s) == <<s>>

\* strings.Split(s, ","): always at least one element, empty elements kept.
RECURSIVE SplitComma(_)
SplitComma(s) ==
    IF \E i \in 1..Len(s) : s[i] = ","
    THEN LET i == CHOOSE i \in 1..Len(s) : s[i] = "," /\ \A j \in 1..(i - 1) : s[j] # ","
         IN  <<SubSeq(s, 1, i - 1)>> \o SplitComma(SubSeq(s, i + 1, Len(s)))
    ELSE <<s>>

\* Options.GetStringSlice(key) on the flat map e.  A string is split at the
\* commas, a []string is returned as it is, the elements of a []int go
\* through strconv.Itoa and those of any other slice through %v, and any
\* other value (nil too) is formatted with %v and split.  Nothing for an
\* absent key.
GetStringSlice(e, key) ==
    IF key \in DOMAIN e
    THEN LET v == e[key]
         IN  CASE v.k = "str" -> SplitComma(v.s)
               [] v.k = "strs" -> v.l
               [] v.k = "ints" -> [i \in 1..Len(v.l) |-> FormatInt(v.l[i])]
               [] v.k = "list" -> [i \in 1..Len(v.l) |-> Sprint(v.l[i])]
               [] OTHER -> SplitComma(Sprint(v))
    ELSE <<>>

\* The number a digit string stands for.
RECURSIVE DigitsValue(_)
DigitsValue(s) ==
    IF Len(s) = 0 THEN 0
    ELSE 10 * DigitsValue(SubSeq(s, 1, Len(s) - 1)) + DigitVal(s[Len(s)])

\* strconv.Atoi(s): ParseInt(s, 10, 0) with an int of 64 bits.
Atoi(s) ==
    LET r == ParseInt(s)
    IN  [err |-> r.err,
         n |-> IF r.err THEN 0
               ELSE IF r.n.neg THEN 0 - DigitsValue(r.n.mag) ELSE DigitsValue(r.n.mag)]

\* A stringSliceToIntSlice that puts 0 for an element Atoi rejects.
RECURSIVE stringSliceToIntSlice_ZeroFill(_)
stringSliceToIntSlice_ZeroFill(in) ==
    IF Len(in) = 0 THEN <<>>
    ELSE <<Atoi(in[1]).n>> \o stringSliceToIntSlice_ZeroFill(Tail(in))

\* stringSliceToIntSlice(in): the elements Atoi accepts, in order.
RECURSIVE stringSliceToIntSlice(_)
stringSliceToIntSlice(in) ==
    IF Len(in) = 0 THEN <<>>
    ELSE (IF ~Atoi(in[1]).err THEN <<Atoi(in[1]).n>> ELSE <<>>)
             \o stringSliceToIntSlice(Tail(in))

\* Options.GetIntSlice(key) on the flat map e: a []int is returned as it
\* is, everything else goes through the strings GetStringSlice makes of it
\* and through stringSliceToIntSlice.
GetIntSlice(e, key) ==
    IF key \in DOMAIN e
    THEN LET v == e[key]
         IN  CASE v.k = "str" -> stringSliceToIntSlice(SplitComma(v.s))
               [] v.k = "strs" -> stringSliceToIntSlice(v.l)
               [] v.k = "ints" -> v.l
               [] v.k = "list" -> stringSliceToIntSlice([i \in 1..Len(v.l) |-> Sprint(v.l[i])])
               [] OTHER -> stringSliceToIntSlice(SplitComma(Sprint(v)))
    ELSE <<>>

\* GetStringSliceR(key) and GetIntSliceR(key): the key is wrapped.
GetStringSliceR(e, key) == GetStringSlice(e, wrapWithRxxtPrefix(key))
GetIntSliceR(e, key) == GetIntSlice(e, wrapWithRxxtPrefix(key))

\* ------------------------------------------------------- sync.RWMutex

\* rw.h is the writer that holds rw.w and has announced itself (0: none); it
\* is inside Lock until the readers have left.  rw.readers hold the read lock.
\* rw.rwait are the readers that arrived behind a writer; Unlock admits them.

\* rw.RLock() called by p.
RLock(p) ==
    IF rw.h = 0 THEN [rw EXCEPT !.readers = @ \cup {p}]
    ELSE [rw EXCEPT !.rwait = @ \cup {p}]

\* rw.RUnlock() called by p.
RUnlock(p) == [rw EXCEPT !.readers = @ \ {p}]

\* rw.Unlock() called by the writer.
Unlock(p) == [h |-> 0, readers |-> rw.rwait, rwait |-> {}]

\* ------------------------------------------------------ concurrent callers

\* The keys, values and document concurrent callers pass.
ConcKeys == {KeyA}
ConcVals == {StrV(<<"1">>)}
\* {a: "1", app: {a: "1"}}
ConcDoc == (A :> StrV(<<"1">>)) @@ (<<"a", "p", "p">> :> MapV((A :> StrV(<<"1">>))))

\* The operations that take the read lock for one read.
ReadOps == {"Get", "GetMap", "GetString"}
\* The operations whose pending call is a SetNx.
SetNxOps == {"Set", "SetNx", "buildAutomaticEnv", "loopMap"}

At(p, o, a) == pc[p] = [op |-> o, at |-> a]
Goto(p, o, a) == pc' = [pc EXCEPT ![p] = [op |-> o, at |-> a]]

\* The SetNx calls loopMap and loopIxMap make for the map m, as [key, val].
RECURSIVE loopMapCalls(_, _), loopIxMapCalls(_, _)
loopMapCalls(kdot, m) ==
    UNION { IF IsIxMap(m[k]) THEN loopIxMapCalls(mx(kdot, k), m[k].m)
            ELSE IF IsMap(m[k]) THEN loopMapCalls(mx(kdot, k), m[k].m)
            ELSE {[key |-> mx(kdot, k), val |-> m[k]]}
          : k \in DOMAIN m }

loopIxMapCalls(kdot, m) ==
    UNION { IF IsIxMap(m[k]) THEN loopIxMapCalls(mxIx(kdot, k), m[k].m)
            ELSE {[key |-> mxIx(kdot, k), val |-> m[k]]}
          : k \in DOMAIN m }

\* A read that enters its body without s.rw.RLock().
ReadCall_NoRLock(p) ==
    /\ ~fatal
    /\ pc[p] = [op |-> "none", at |-> "idle"]
    /\ \E o \in {"Get", "GetMap", "GetString"} : Goto(p, o, "cs")
    /\ UNCHANGED <<entries, hierarchy, entriesNil, rw, arg, todo, live, work, snap, fatal, op, pre, done, nops, fsys, twin, help>>

\* Get, GetMap, GetString: "defer s.rw.RUnlock(); s.rw.RLock()".
ReadCall(p) ==
    /\ ~fatal
    /\ pc[p] = Idle
    /\ \E o \in ReadOps :
           /\ rw' = RLock(p)
           /\ IF rw.h = 0 THEN Goto(p, o, "cs") ELSE Goto(p, o, "rwait")
    /\ UNCHANGED <<entries, hierarchy, entriesNil, arg, todo, live, work, snap, fatal, op, pre, done, nops, fsys, twin, help>>

\* A reader blocked in RLock is admitted by the writer's Unlock.
ReadGranted(p) ==
    /\ ~fatal
    /\ pc[p].at = "rwait"
    /\ p \in rw.readers
    /\ Goto(p, pc[p].op, "cs")
    /\ UNCHANGED <<entries, hierarchy, entriesNil, rw, arg, todo, live, work, snap, fatal, op, pre, done, nops, fsys, twin, help>>

\* The read itself and the deferred RUnlock.
ReadReturn(p) ==
    /\ ~fatal
    /\ pc[p].at = "cs"
    /\ pc[p].op \in ReadOps
    /\ rw' = RUnlock(p)
    /\ pc' = [pc EXCEPT ![p] = Idle]
    /\ UNCHANGED <<entries, hierarchy, entriesNil, arg, todo, live, work, snap, fatal, op, pre, done, nops, fsys, twin, help>>

\* SaveAsYaml calls GetHierarchyList: "defer s.rw.RUnlock(); s.rw.RLock()".
SaveCall(p) ==
    /\ ~fatal
    /\ pc[p] = Idle
    /\ rw' = RLock(p)
    /\ IF rw.h = 0 THEN Goto(p, "SaveAsYaml", "cs") ELSE Goto(p, "SaveAsYaml", "rwait")
    /\ UNCHANGED <<entries, hierarchy, entriesNil, arg, todo, live, work, snap, fatal, op, pre, done, nops, fsys, twin, help>>

\* GetHierarchyList returns s.hierarchy, the map itself, and the deferred
\* RUnlock runs: SaveAsYaml goes on to marshal the map.
HierarchyReturn(p) ==
    /\ ~fatal
    /\ At(p, "SaveAsYaml", "cs")
    /\ rw' = RUnlock(p)
    /\ Goto(p, "SaveAsYaml", "marshal")
    /\ snap' = [snap EXCEPT ![p] = hierarchy]
    /\ UNCHANGED <<entries, hierarchy, entriesNil, arg, todo, live, work, fatal, op, pre, done, nops, fsys, twin, help>>

\* SaveAsYaml: yaml.Marshal(obj) reads the returned map, no lock held.
Marshal(p) ==
    /\ ~fatal
    /\ At(p, "SaveAsYaml", "marshal")
    /\ pc' = [pc EXCEPT ![p] = Idle]
    /\ snap' = [snap EXCEPT ![p] = EmptyMap]
    /\ UNCHANGED <<entries, hierarchy, entriesNil, rw, arg, todo, live, work, fatal, op, pre, done, nops, fsys, twin, help>>

\* DumpAsString starts, no lock taken.
DumpCall(p) ==
    /\ ~fatal
    /\ pc[p] = Idle
    /\ Goto(p, "DumpAsString", "entries")
    /\ UNCHANGED <<entries, hierarchy, entriesNil, rw, arg, todo, live, work, snap, fatal, op, pre, done, nops, fsys, twin, help>>

\* DumpAsString: "for k := range s.entries" and the reads s.entries[k].
DumpEntries(p) ==
    /\ ~fatal
    /\ At(p, "DumpAsString", "entries")
    /\ Goto(p, "DumpAsString", "tree")
    /\ UNCHANGED <<entries, hierarchy, entriesNil, rw, arg, todo, live, work, snap, fatal, op, pre, done, nops, fsys, twin, help>>

\* DumpAsString: yaml.Marshal(s.hierarchy).
DumpTree(p) ==
    /\ ~fatal
    /\ At(p, "DumpAsString", "tree")
    /\ pc' = [pc EXCEPT ![p] = Idle]
    /\ UNCHANGED <<entries, hierarchy, entriesNil, rw, arg, todo, live, work, snap, fatal, op, pre, done, nops, fsys, twin, help>>

\* A caller enters Set, SetNx or Reset and is about to call s.rw.Lock().
WriteCall(p) ==
    /\ ~fatal
    /\ pc[p] = Idle
    /\ \/ \E key \in ConcKeys, val \in ConcVals :
              /\ Goto(p, "SetNx", "wlock")
              /\ arg' = [arg EXCEPT ![p] = [key |-> key, val |-> val]]
       \/ \E key \in ConcKeys, val \in ConcVals :
              /\ Goto(p, "Set", "wlock")
              /\ arg' = [arg EXCEPT ![p] = [key |-> wrapWithRxxtPrefix(key), val |-> val]]
       \/ /\ Goto(p, "Reset", "wlock")
          /\ arg' = arg
    /\ UNCHANGED <<entries, hierarchy, entriesNil, rw, todo, live, work, snap, fatal, op, pre, done, nops, fsys, twin, help>>

\* rw.Lock(), first half: rw.w is taken and the writer announced; readers
\* arriving from now on wait.
Lock(p) ==
    /\ ~fatal
    /\ pc[p].at = "wlock"
    /\ rw.h = 0
    /\ rw' = [rw EXCEPT !.h = p]
    /\ Goto(p, pc[p].op, "wwait")
    /\ UNCHANGED <<entries, hierarchy, entriesNil, arg, todo, live, work, snap, fatal, op, pre, done, nops, fsys, twin, help>>

\* rw.Lock(), second half: the readers have left and Lock returns.
LockReturn(p) ==
    /\ ~fatal
    /\ pc[p].at = "wwait"
    /\ rw.h = p
    /\ rw.readers = {}
    /\ Goto(p, pc[p].op, "cs")
    /\ UNCHANGED <<entries, hierarchy, entriesNil, rw, arg, todo, live, work, snap, fatal, op, pre, done, nops, fsys, twin, help>>

\* Where a finished SetNx returns to: the loop that called it, or the caller.
AfterSetNx(o) ==
    CASE o = "buildAutomaticEnv" -> [op |-> o, at |-> "range"]
      [] o = "loopMap"           -> [op |-> o, at |-> "loop"]
      [] OTHER                   -> Idle

\* A SetNx whose nil guard asks GetMap, which takes the read lock, instead
\* of getMapNoLock.
SetNxEntries_GuardTakesRLock(p) ==
    /\ ~fatal
    /\ pc[p].at = "cs"
    /\ pc[p].op \in {"Set", "SetNx", "buildAutomaticEnv", "loopMap"}
    /\ rw' = (IF rw.h = 0 THEN [rw EXCEPT !.readers = @ \cup {p}]
                          ELSE [rw EXCEPT !.rwait = @ \cup {p}])
    /\ pc' = [pc EXCEPT ![p] = [op |-> pc[p].op, at |-> "rwait"]]
    /\ UNCHANGED <<entries, hierarchy, entriesNil, arg, todo, live, work, snap, fatal, op, pre, done, nops, fsys, twin, help>>

\* SetNx, first statement: the nil guard returns (the deferred Unlock runs),
\* otherwise s.entries[key] = val.  A key new to the map may or may not be
\* produced by a range over the same map that is under way.
SetNxEntries(p) ==
    /\ ~fatal
    /\ pc[p].at = "cs"
    /\ pc[p].op \in SetNxOps
    /\ IF nilGuard(hierarchy, arg[p].key, arg[p].val) \/ entriesNil
       THEN /\ rw' = Unlock(p)
            /\ pc' = [pc EXCEPT ![p] = AfterSetNx(pc[p].op)]
            /\ arg' = [arg EXCEPT ![p] = NoArg]
            /\ UNCHANGED <<entries, todo>>
       ELSE /\ entries' = Put(entries, arg[p].key, arg[p].val)
            /\ Goto(p, pc[p].op, "merge")
            /\ UNCHANGED <<rw, arg>>
            /\ IF arg[p].key \in DOMAIN entries
               THEN todo' = todo
               ELSE \E S \in SUBSET {q \in Procs : live[q]} :
                        todo' = [q \in Procs |->
                                    IF q \in S THEN todo[q] \cup {arg[p].key} ELSE todo[q]]
    /\ UNCHANGED <<hierarchy, entriesNil, live, work, snap, fatal, op, pre, done, nops, fsys, twin, help>>

\* SetNx, second statement: mergeMap(s.hierarchy, a[0], et(a, 1, val)), then
\* the deferred Unlock.
SetNxMerge(p) ==
    /\ ~fatal
    /\ pc[p].at = "merge"
    /\ LET a == Split(arg[p].key)
       IN  hierarchy' = mergeMap(hierarchy, a[1], et(a, 2, arg[p].val))
    /\ rw' = Unlock(p)
    /\ pc' = [pc EXCEPT ![p] = AfterSetNx(pc[p].op)]
    /\ arg' = [arg EXCEPT ![p] = NoArg]
    /\ UNCHANGED <<entries, entriesNil, todo, live, work, snap, fatal, op, pre, done, nops, fsys, twin, help>>

\* A Reset that unlocks before its sleep instead of after it.
ResetNil_UnlocksFirst(p) ==
    /\ ~fatal
    /\ pc[p] = [op |-> "Reset", at |-> "cs"]
    /\ entries' = EmptyMap
    /\ entriesNil' = TRUE
    /\ live' = [q \in Procs |-> FALSE]
    /\ rw' = [h |-> 0, readers |-> rw.rwait, rwait |-> {}]
    /\ pc' = [pc EXCEPT ![p] = [op |-> "Reset", at |-> "sleep"]]
    /\ UNCHANGED <<hierarchy, arg, todo, work, snap, fatal, op, pre, done, nops, fsys, twin, help>>

\* Reset, first statement: s.entries = nil.  A range under way keeps the old
\* map, which nothing writes to any more.
ResetNil(p) ==
    /\ ~fatal
    /\ At(p, "Reset", "cs")
    /\ entries' = EmptyMap
    /\ entriesNil' = TRUE
    /\ live' = [q \in Procs |-> FALSE]
    /\ Goto(p, "Reset", "sleep")
    /\ UNCHANGED <<hierarchy, rw, arg, todo, work, snap, fatal, op, pre, done, nops, fsys, twin, help>>

\* A Reset without its deferred Unlock.
ResetMake_NoUnlock(p) ==
    /\ ~fatal
    /\ pc[p] = [op |-> "Reset", at |-> "sleep"]
    /\ entries' = EmptyMap
    /\ entriesNil' = FALSE
    /\ pc' = [pc EXCEPT ![p] = [op |-> "none", at |-> "idle"]]
    /\ UNCHANGED <<hierarchy, rw, arg, todo, live, work, snap, fatal, op, pre, done, nops, fsys, twin, help>>

\* Reset: the sleep ends, s.entries = make(...), then the deferred Unlock.
ResetMake(p) ==
    /\ ~fatal
    /\ At(p, "Reset", "sleep")
    /\ entries' = EmptyMap
    /\ entriesNil' = FALSE
    /\ rw' = Unlock(p)
    /\ pc' = [pc EXCEPT ![p] = Idle]
    /\ UNCHANGED <<hierarchy, arg, todo, live, work, snap, fatal, op, pre, done, nops, fsys, twin, help>>

\* buildAutomaticEnv: "for key := range s.entries" starts, no lock taken.
OverlayCall(p) ==
    /\ ~fatal
    /\ pc[p] = Idle
    /\ todo' = [todo EXCEPT ![p] = DOMAIN entries]
    /\ live' = [live EXCEPT ![p] = ~entriesNil]
    /\ Goto(p, "buildAutomaticEnv", "range")
    /\ UNCHANGED <<entries, hierarchy, entriesNil, rw, arg, work, snap, fatal, op, pre, done, nops, fsys, twin, help>>

\* buildAutomaticEnv: the range produces the next key, or ends; a key whose
\* environment variable is set leads to s.Set(...).
OverlayRange(p) ==
    /\ ~fatal
    /\ At(p, "buildAutomaticEnv", "range")
    /\ IF todo[p] = {}
       THEN /\ pc' = [pc EXCEPT ![p] = Idle]
            /\ live' = [live EXCEPT ![p] = FALSE]
            /\ UNCHANGED <<arg, todo>>
       ELSE \E key \in todo[p] :
                /\ todo' = [todo EXCEPT ![p] = @ \ {key}]
                /\ live' = live
                /\ IF envKey(key) \in DOMAIN Environ
                   THEN IF overlayKey(key).panic
                        THEN /\ Goto(p, "buildAutomaticEnv", "panic")
                             /\ arg' = arg
                        ELSE /\ Goto(p, "buildAutomaticEnv", "wlock")
                             /\ arg' = [arg EXCEPT ![p] =
                                    [key |-> wrapWithRxxtPrefix(overlayKey(key).key),
                                     val |-> StrV(Environ[envKey(key)])]]
                   ELSE UNCHANGED <<pc, arg>>
    /\ UNCHANGED <<entries, hierarchy, entriesNil, rw, work, snap, fatal, op, pre, done, nops, fsys, twin, help>>

\* Caller p ranges over the map s.entries refers to, no lock held.
RangesEntries(p) ==
    \/ At(p, "buildAutomaticEnv", "range") /\ live[p]
    \/ At(p, "DumpAsString", "entries")

\* Caller p ranges over the maps of the tree, no lock held.
RangesTree(p) ==
    \/ At(p, "DumpAsString", "tree")
    \/ At(p, "SaveAsYaml", "marshal")

\* A range over a map runs while another caller writes the same map: the Go
\* runtime may notice and end the program ("fatal error: concurrent map
\* iteration and map write"); when it does not, the range goes on as above.
MapRace(p) ==
    /\ ~fatal
    /\ \E q \in Procs \ {p} :
           \/ RangesEntries(p) /\ pc[q].at = "cs" /\ pc[q].op \in SetNxOps
           \/ RangesTree(p) /\ pc[q].at = "merge"
    /\ fatal' = TRUE
    /\ UNCHANGED <<entries, hierarchy, entriesNil, rw, pc, arg, todo, live, work, snap, op, pre, done, nops, fsys, twin, help>>

\* loopMap("", doc) starts.
LoopCall(p) ==
    /\ ~fatal
    /\ pc[p] = Idle
    /\ work' = [work EXCEPT ![p] = loopMapCalls(<<>>, ConcDoc)]
    /\ Goto(p, "loopMap", "loop")
    /\ UNCHANGED <<entries, hierarchy, entriesNil, rw, arg, todo, live, snap, fatal, op, pre, done, nops, fsys, twin, help>>

\* loopMap: the range produces the next leaf and calls s.SetNx, or ends.
LoopRange(p) ==
    /\ ~fatal
    /\ At(p, "loopMap", "loop")
    /\ IF work[p] = {}
       THEN /\ pc' = [pc EXCEPT ![p] = Idle]
            /\ UNCHANGED <<arg, work>>
       ELSE \E c \in work[p] :
                /\ work' = [work EXCEPT ![p] = @ \ {c}]
                /\ arg' = [arg EXCEPT ![p] = c]
                /\ Goto(p, "loopMap", "wlock")
    /\ UNCHANGED <<entries, hierarchy, entriesNil, rw, todo, live, snap, fatal, op, pre, done, nops, fsys, twin, help>>

\* Concurrent callers of every operation of the store.
NextConc ==
    \E p \in Procs :
        \/ ReadCall(p) \/ ReadGranted(p) \/ ReadReturn(p)
        \/ SaveCall(p) \/ HierarchyReturn(p) \/ Marshal(p)
        \/ DumpCall(p) \/ DumpEntries(p) \/ DumpTree(p)
        \/ WriteCall(p) \/ Lock(p) \/ LockReturn(p)
        \/ SetNxEntries(p) \/ SetNxMerge(p)
        \/ ResetNil(p) \/ ResetMake(p)
        \/ OverlayCall(p) \/ OverlayRange(p) \/ MapRace(p)
        \/ LoopCall(p) \/ LoopRange(p)

SpecConc == Init /\ [][NextConc]_vars

\* The typed reads.  GetBool (as GetInt, GetUint, GetFloat32, GetFloat64 and
\* GetDuration) takes no lock itself and calls GetString once;
\* GetStringSlice and GetIntSlice take the read lock themselves.
TypedReadOps == {"GetBool", "GetStringSlice", "GetIntSlice"}

\* A typed read starts: "defer s.rw.RUnlock(); s.rw.RLock()", in GetString
\* for GetBool.
TypedReadCall(p) ==
    /\ ~fatal
    /\ pc[p] = Idle
    /\ \E o \in TypedReadOps :
           /\ rw' = RLock(p)
           /\ IF rw.h = 0 THEN Goto(p, o, "cs") ELSE Goto(p, o, "rwait")
    /\ UNCHANGED <<entries, hierarchy, entriesNil, arg, todo, live, work, snap, fatal, op, pre, done, nops, fsys, twin, help>>

\* The read of s.entries[key] and the deferred RUnlock; GetBool converts
\* the string GetString returned with no lock held.
TypedReadReturn(p) ==
    /\ ~fatal
    /\ pc[p].at = "cs"
    /\ pc[p].op \in TypedReadOps
    /\ rw' = RUnlock(p)
    /\ pc' = [pc EXCEPT ![p] = Idle]
    /\ UNCHANGED <<entries, hierarchy, entriesNil, arg, todo, live, work, snap, fatal, op, pre, done, nops, fsys, twin, help>>

\* Concurrent callers of the operations that take the lock, typed reads and
\* the overlay pass among them.
NextReentry ==
    \E p \in Procs :
        \/ ReadCall(p) \/ ReadGranted(p) \/ ReadReturn(p)
        \/ TypedReadCall(p) \/ TypedReadReturn(p)
        \/ WriteCall(p) \/ Lock(p) \/ LockReturn(p)
        \/ SetNxEntries(p) \/ SetNxMerge(p)
        \/ ResetNil(p) \/ ResetMake(p)
        \/ OverlayCall(p) \/ OverlayRange(p)
        \/ LoopCall(p) \/ LoopRange(p)

SpecReentry == Init /\ [][NextReentry]_vars

\* Every step of caller p in an operation that takes the lock before it
\* touches the maps: Get, GetMap, GetString, Set, SetNx, Reset, loopMap.
LockedNext(p) ==
    \/ ReadCall(p) \/ ReadGranted(p) \/ ReadReturn(p)
    \/ WriteCall(p) \/ Lock(p) \/ LockReturn(p)
    \/ SetNxEntries(p) \/ SetNxMerge(p)
    \/ ResetNil(p) \/ ResetMake(p)
    \/ LoopCall(p) \/ LoopRange(p)

\* Concurrent callers of the operations that take the lock.
NextLocked ==
    \E p \in Procs :
        \/ ReadCall(p) \/ ReadGranted(p) \/ ReadReturn(p)
        \/ WriteCall(p) \/ Lock(p) \/ LockReturn(p)
        \/ SetNxEntries(p) \/ SetNxMerge(p)
        \/ ResetNil(p) \/ ResetMake(p)
        \/ LoopCall(p) \/ LoopRange(p)

\* The Go scheduler runs every runnable goroutine (weak fairness of each
\* caller), and sync.Mutex hands rw.w to a waiter that has waited long
\* (starvation mode): a writer that keeps finding rw.w free gets it.
Fairness == \A p \in Procs : WF_vars(LockedNext(p)) /\ SF_vars(Lock(p))

SpecFair == Init /\ [][NextLocked]_vars /\ Fairness

\* ------------------------------------------------- reading the two maps

Missing == [found |-> FALSE]
Found(v) == [found |-> TRUE, v |-> v]

\* The node reached from the map h by the segments segs, one map per segment.
RECURSIVE Descend(_, _)
Descend(h, segs) ==
    IF segs[1] \notin DOMAIN h THEN Missing
    ELSE IF Len(segs) = 1 THEN Found(h[segs[1]])
    ELSE IF IsMap(h[segs[1]]) THEN Descend(h[segs[1]].m, Tail(segs))
    ELSE Missing

\* The tree h has a branch (a map) at the dotted key.
BranchAt(h, key) ==
    LET d == Descend(h, Split(key)) IN d.found /\ IsMap(d.v)

\* The tree h has a leaf (a value that is no map) at the dotted key.
LeafAt(h, key) ==
    LET d == Descend(h, Split(key)) IN d.found /\ ~IsMap(d.v)

\* The leaves of the map h, each with its descent path: <<path, value>>.
RECURSIVE Leaves(_, _)
Leaves(h, path) ==
    UNION { IF IsMap(h[k]) THEN Leaves(h[k].m, Append(path, k))
            ELSE {<<Append(path, k), h[k]>>}
          : k \in DOMAIN h }

\* The flat key the last Set or SetNx wrote to.
FlatKey(call) == IF call.name = "Set" THEN wrapWithRxxtPrefix(call.key) ELSE call.key

\* key2 lies strictly below key: it continues key with a dot.
Below(key2, key) == Len(key2) > Len(key) /\ HasPrefix(key2, key \o <<Dot>>)

\* ------------------------------------------------------------------ claims

\* C1 (as claimed): after any sequence of Set calls, every key of the flat map
\* is reached in the tree by descending along its segments, and the node
\* reached equals the flat value.
C1_FlatKeysInTree ==
    done \subseteq {"Set"} =>
        \A key \in DOMAIN entries : Descend(hierarchy, Split(key)) = Found(entries[key])

\* C2: when the tree has a branch at the key, SetNx(key, nil), and Set with the
\* un-prefixed key, changes neither the flat map nor the tree.
C2_NullBranchGuard ==
    (op.name \in {"Set", "SetNx"} /\ op.val = Nil /\ BranchAt(pre.hierarchy, FlatKey(op)))
        => (entries = pre.entries /\ hierarchy = pre.hierarchy)

\* C2 witness: a nil is written at a branch that has flat entries below it.
C2_Witness ==
    /\ op.name \in {"Set", "SetNx"}
    /\ op.val = Nil
    /\ BranchAt(pre.hierarchy, FlatKey(op))
    /\ \E key2 \in DOMAIN pre.entries : Below(key2, FlatKey(op))

\* C3 (as claimed): outside the null-branch case SetNx(key, val) stores val
\* under key, so Get(key) returns val afterwards, also for val = nil at a key
\* that is absent from the tree or a leaf.
C3_LastWriteWins ==
    (op.name = "SetNx" /\ ~(op.val = Nil /\ BranchAt(pre.hierarchy, op.key)))
        => Get(entries, op.key) = op.val

\* C4 (as claimed): in every state reached by Set, SetNx and ingestion, every
\* leaf of the tree has its descent path, joined with dots, as a key of the
\* flat map, and the flat value equals the leaf.
C4_TreeLeavesInFlat ==
    "Reset" \notin done =>
        \A l \in Leaves(hierarchy, <<>>) :
            Join(l[1]) \in DOMAIN entries /\ entries[Join(l[1])] = l[2]

\* C5: Reset leaves the flat map empty, so Get returns nil for every key, and
\* leaves the tree as it was, so GetMap returns what it returned before.
C5_ResetFrame ==
    op.name = "Reset" =>
        /\ DOMAIN entries = {}
        /\ \A key \in DOMAIN pre.entries : Get(entries, key) = Nil
        /\ hierarchy = pre.hierarchy
        /\ \A key \in DOMAIN pre.entries :
               getMapNoLock(hierarchy, key) = getMapNoLock(pre.hierarchy, key)

\* C5 witness: Reset ran on a store with flat entries and a tree.
C5_Witness ==
    /\ op.name = "Reset"
    /\ DOMAIN pre.entries # {}
    /\ DOMAIN hierarchy # {}
    /\ DOMAIN entries = {}

\* Caller p is inside the critical section of a lock-taking read.
InReadCS(p) == pc[p].at = "cs" /\ pc[p].op \in ReadOps \cup {"SaveAsYaml"}

\* Caller p is inside the critical section of SetNx or Reset.
InWriteCS(p) ==
    /\ pc[p].at \in {"cs", "merge", "sleep"}
    /\ pc[p].op \in SetNxOps \cup {"Reset"}

\* C6: a lock-taking read that is about to read never finds s.entries nil,
\* the state between the two assignments of Reset.
C6_ReadersNeverSeeNilEntries ==
    \A p \in Procs : InReadCS(p) => ~entriesNil

\* C6 witness: a Get was called while Reset sleeps with s.entries nil.
C6_Witness ==
    \E p, q \in Procs :
        /\ pc[q] = [op |-> "Reset", at |-> "sleep"]
        /\ entriesNil
        /\ pc[p] = [op |-> "Get", at |-> "rwait"]

\* C7: while a writer is inside its critical section, no other caller is
\* inside a read or write critical section.
C7_WritersExclude ==
    \A p, q \in Procs :
        (p # q /\ InWriteCS(p)) => (~InWriteCS(q) /\ ~InReadCS(q))

\* C7 witness: a SetNx is between its two writes while a reader and nobody
\* else waits for the lock.
C7_Witness ==
    \E p, q \in Procs :
        /\ pc[p] = [op |-> "SetNx", at |-> "merge"]
        /\ pc[q].at = "rwait"
        /\ q \in rw.rwait

\* Two readers inside their critical sections at once (C7, second half).
C7_ReadersShare ==
    \E p, q \in Procs : p # q /\ InReadCS(p) /\ InReadCS(q)

\* C8: every started Get, GetMap, typed accessor, Set, SetNx, Reset and
\* ingestion eventually returns, and a caller that has returned holds
\* neither the read nor the write lock.
C8_OperationsComplete ==
    /\ \A p \in Procs :
           [](pc[p] = Idle => (rw.h # p /\ p \notin rw.readers /\ p \notin rw.rwait))
    /\ \A p \in Procs :
           (pc[p].op \in ReadOps \cup {"Set", "SetNx", "Reset", "loopMap"}) ~> (pc[p] = Idle)

\* C8 witness: a caller waits for the lock while Reset sleeps holding it.
C8_Witness ==
    \E p, q \in Procs :
        /\ pc[q] = [op |-> "Reset", at |-> "sleep"]
        /\ pc[p].at \in {"rwait", "wlock"}
        /\ pc[p].op \in ReadOps \cup {"Set", "SetNx", "Reset", "loopMap"}

\* C9 (as claimed): from the start of the overlay pass to its end no other
\* caller is inside the critical section of SetNx or Reset.
C9_OverlayExclusive ==
    \A p, q \in Procs :
        (p # q /\ pc[p].op = "buildAutomaticEnv") => ~InWriteCS(q)

\* C10 (as claimed): while the exporter works on the map GetHierarchyList
\* returned, which is s.hierarchy itself, that map is as it was returned.
C10_ReturnedTreeUnchanged ==
    \A p \in Procs :
        pc[p] = [op |-> "SaveAsYaml", at |-> "marshal"] => hierarchy = snap[p]

\* Options.GetMap(key) on the tree h, inside the read lock.
GetMap(h, key) == getMapNoLock(h, key)

\* The dotted key without its last segment, and that last segment.
ParentKey(key) == LET a == Split(key) IN Join(SubSeq(a, 1, Len(a) - 1))
LastSeg(key) == LET a == Split(key) IN a[Len(a)]

\* C11 (as claimed): after Set("a.b", v1) followed by Set("a.c", v2),
\* GetMap("a") returns a map that holds b: v1 and c: v2.
C11_SiblingsAtRawKey ==
    (/\ op.name = "Set" /\ op.key = KeyAC /\ op.val # Nil
     /\ LeafAt(pre.hierarchy, wrapWithRxxtPrefix(KeyAB)))
        => LET m == GetMap(hierarchy, KeyA)
           IN  /\ m # NilMap
               /\ {B, C} \subseteq DOMAIN m.m
               /\ m.m[B] = Descend(pre.hierarchy, Split(wrapWithRxxtPrefix(KeyAB))).v
               /\ m.m[C] = op.val

\* C11 (amended): after Set("a.b", v1) followed by Set("a.c", v2), GetMap of
\* the prefixed key "app.a" returns a map that holds b: v1 and c: v2; and a
\* Set or SetNx whose key lies under an existing branch leaves every other
\* child of that branch as it was.
C11_SiblingsKept ==
    /\ (/\ op.name = "Set" /\ op.key = KeyAC /\ op.val # Nil
        /\ LeafAt(pre.hierarchy, wrapWithRxxtPrefix(KeyAB)))
           => LET m == GetMap(hierarchy, wrapWithRxxtPrefix(KeyA))
              IN  /\ m # NilMap
                  /\ {B, C} \subseteq DOMAIN m.m
                  /\ m.m[B] = Descend(pre.hierarchy, Split(wrapWithRxxtPrefix(KeyAB))).v
                  /\ m.m[C] = op.val
    /\ (/\ op.name \in {"Set", "SetNx"}
        /\ Len(Split(FlatKey(op))) > 1
        /\ BranchAt(pre.hierarchy, ParentKey(FlatKey(op))))
           => LET was == Descend(pre.hierarchy, Split(ParentKey(FlatKey(op)))).v.m
                  now == Descend(hierarchy, Split(ParentKey(FlatKey(op))))
              IN  /\ now.found
                  /\ IsMap(now.v)
                  /\ \A c \in (DOMAIN was) \ {LastSeg(FlatKey(op))} :
                         c \in DOMAIN now.v.m /\ now.v.m[c] = was[c]

\* C11 witness: Set("a.c", v2) ran on a tree with the leaf app.a.b and no
\* app.a.c, and the branch app.a now has both children.
C11_Witness ==
    /\ op.name = "Set"
    /\ op.key = KeyAC
    /\ op.val # Nil
    /\ LeafAt(pre.hierarchy, wrapWithRxxtPrefix(KeyAB))
    /\ ~Descend(pre.hierarchy, Split(wrapWithRxxtPrefix(KeyAC))).found
    /\ LeafAt(hierarchy, wrapWithRxxtPrefix(KeyAB))
    /\ LeafAt(hierarchy, wrapWithRxxtPrefix(KeyAC))

\* C12: once Set(k, v) has run, nil included, running Set(k, v) again leaves
\* the flat map and the tree as they are.
C12_SetTwiceIsSetOnce ==
    op.name = "Set" => SetOn(store, op.key, op.val) = store

\* C12 witness: a Set(k, nil) that was stored (no node at k before), and a
\* Set(k, v) that replaced a branch by a leaf.
C12_Witness ==
    /\ op.name = "Set"
    /\ store # pre
    /\ \/ op.val = Nil /\ Get(entries, wrapWithRxxtPrefix(op.key)) = Nil
                       /\ wrapWithRxxtPrefix(op.key) \in DOMAIN entries
       \/ op.val # Nil /\ BranchAt(pre.hierarchy, wrapWithRxxtPrefix(op.key))

\* The flat key "app." + key written out for the default prefix ("app" alone
\* for the empty key).
AppDot(key) == IF Len(key) = 0 THEN <<"a", "p", "p">> ELSE <<"a", "p", "p", ".">> \o key

ProbeKeys ==
    InKeys \cup {wrapWithRxxtPrefix(k) : k \in InKeys}
           \cup {<<"a", "p", "p">>, <<"a", ".", "1">>, <<"a", ".", "b", ".", "c">>}

\* The values a leaf of the document m has at the flat key, for the prefix kdot.
DocValues(kdot, m, key) == {c.val : c \in {d \in loopMapCalls(kdot, m) : d.key = key}}

\* C14: Get(key) returns the value last assigned to the flat entry of exactly
\* that key, and nil when there is none: a write to another key, a node of the
\* tree at the key, or a Reset of the flat map are the only other cases, and
\* they leave the answer as it was, or nil after Reset.
C14_GetIsFlatLookup ==
    \A key \in ProbeKeys :
        /\ key \notin DOMAIN entries => Get(entries, key) = Nil
        /\ op.name \in {"Set", "SetNx"} =>
               Get(entries, key) =
                   IF FlatKey(op) = key /\ ~nilGuard(pre.hierarchy, key, op.val)
                   THEN op.val
                   ELSE Get(pre.entries, key)
        /\ op.name = "Reset" => Get(entries, key) = Nil
        /\ op.name = "loopMap" =>
               IF DocValues(<<>>, op.val.m, key) # {}
               THEN Get(entries, key) \in DocValues(<<>>, op.val.m, key)
               ELSE Get(entries, key) = Get(pre.entries, key)

\* C14 witness: the tree has the branch app.a, the flat map has app.a.b and no
\* app.a, and Get("app.a") is nil.
C14_Witness ==
    /\ op.name = "Set"
    /\ BranchAt(hierarchy, wrapWithRxxtPrefix(KeyA))
    /\ wrapWithRxxtPrefix(KeyAB) \in DOMAIN entries
    /\ wrapWithRxxtPrefix(KeyA) \notin DOMAIN entries
    /\ Get(entries, wrapWithRxxtPrefix(KeyA)) = Nil

\* The keys GetMap is asked for.
MapProbeKeys == ProbeKeys \cup {<<>>, <<"a", ".", ".", "b">>, <<"a", "p", "p", ".", "a", ".", "b", ".", "c">>}

\* C15: GetMap(key) is the map at the path of key when the path ends at a map,
\* the map holding the leaf when it ends at a leaf (the whole tree for a key of
\* one segment), and nil when a segment is missing or a segment before the
\* last is no map.
C15_GetMapDescends ==
    \A key \in MapProbeKeys :
        LET segs == Split(key)
            d == Descend(hierarchy, segs)
        IN  GetMap(hierarchy, key) =
                IF ~d.found THEN NilMap
                ELSE IF IsMap(d.v) THEN d.v
                ELSE IF Len(segs) = 1 THEN MapV(hierarchy)
                ELSE Descend(hierarchy, SubSeq(segs, 1, Len(segs) - 1)).v

\* C15 witness: the tree has the leaf a beside the branch app with the leaf
\* app.a.b below it: GetMap("a") is the whole tree, GetMap("app.a.b") the map
\* at app.a, GetMap("app.a.b.c") nil.
C15_Witness ==
    /\ LeafAt(hierarchy, KeyA)
    /\ LeafAt(hierarchy, wrapWithRxxtPrefix(KeyAB))
    /\ GetMap(hierarchy, KeyA) = MapV(hierarchy)
    /\ GetMap(hierarchy, wrapWithRxxtPrefix(KeyAB)) = GetMap(hierarchy, wrapWithRxxtPrefix(KeyA))
    /\ GetMap(hierarchy, <<"a", "p", "p", ".", "a", ".", "b", ".", "c">>) = NilMap

\* The document m has string keys at every level.
RECURSIVE StringKeyed(_)
StringKeyed(m) ==
    \A k \in DOMAIN m : ~IsIxMap(m[k]) /\ (IsMap(m[k]) => StringKeyed(m[k].m))

\* One SetNx call per leaf of the string-keyed document m: the key is the
\* path of the leaf joined with dots.
LeafCalls(m) == {[key |-> Join(l[1]), val |-> l[2]] : l \in Leaves(m, <<>>)}

\* The stores reached from s by making each of the SetNx calls once, in any
\* order.
RECURSIVE ApplyAll(_, _)
ApplyAll(s, calls) ==
    IF calls = {} THEN {s}
    ELSE UNION {ApplyAll(SetNxOn(s, c.key, c.val), calls \ {c}) : c \in calls}

\* C16: ingesting a string-keyed document makes one SetNx call per leaf, with
\* the path of the leaf as key, and nothing else: the store is what those
\* calls make of it, every flat key outside the document is as before, and
\* after {a: {b: 1, c: 2}} Get("a.b") is 1 and GetMap("a") has b and c.
C16_StringKeyedIngestion ==
    (op.name = "loopMap" /\ StringKeyed(op.val.m)) =>
        /\ store \in ApplyAll(pre, LeafCalls(op.val.m))
        /\ \A c \in LeafCalls(op.val.m) :
               Get(entries, c.key) \in {d.val : d \in {e \in LeafCalls(op.val.m) : e.key = c.key}}
        /\ \A key \in (DOMAIN entries) \cup (DOMAIN pre.entries) :
               key \notin {c.key : c \in LeafCalls(op.val.m)} =>
                   key \in DOMAIN pre.entries /\ Get(entries, key) = Get(pre.entries, key)
        /\ op.val.m = DocStr =>
               /\ Get(entries, KeyAB) = IntV(1)
               /\ Get(entries, KeyAC) = IntV(2)
               /\ GetMap(hierarchy, KeyA) # NilMap
               /\ {B, C} \subseteq DOMAIN GetMap(hierarchy, KeyA).m

\* C16 witness: {a: {b: 1, c: 2}} was ingested into a store that had the flat
\* key a.b with another value and a key outside the document.
C16_Witness ==
    /\ op.name = "loopMap"
    /\ op.val.m = DocStr
    /\ Get(pre.entries, KeyAB) = IntV(2)
    /\ \E key \in DOMAIN pre.entries : key \notin {KeyAB, KeyAC}
    /\ Get(entries, KeyAB) = IntV(1)
    /\ GetMap(hierarchy, KeyA) = MapV((B :> IntV(1)) @@ (C :> IntV(2)))

\* C17 (as claimed): a document is ingested into an empty store and the tree
\* GetHierarchyList returns is ingested again, into the same store or into a
\* new one: the flat map is the flat map after the first ingestion.
C17_IngestionRoundTrip ==
    /\ (nops = 2 /\ done = {"loopMap"} /\ op.val = MapV(pre.hierarchy)) =>
           entries = pre.entries
    /\ (nops = 1 /\ op.name = "loopMap") =>
           \A s2 \in loopMap(NewOptions, <<>>, hierarchy) : s2.entries = entries

\* The scalar leaves of a document of either shape, each with its flat key:
\* string keys joined as they are, other keys formatted, maps of both shapes
\* descended into.
RECURSIVE ScalarLeaves(_, _, _)
ScalarLeaves(kdot, m, ix) ==
    UNION { LET key == IF ix THEN mxIx(kdot, k) ELSE mx(kdot, k)
            IN  IF IsMap(m[k]) \/ IsIxMap(m[k])
                THEN ScalarLeaves(key, m[k].m, IsIxMap(m[k]))
                ELSE {[key |-> key, val |-> m[k]]}
          : k \in DOMAIN m }

\* C18 (as claimed): after a document with maps keyed by arbitrary scalars is
\* ingested, every scalar leaf has its own flat entry, under its stringified
\* path, and no flat value is a map.
C18_IxMapRecursion ==
    (op.name = "loopMap" /\ ~StringKeyed(op.val.m)) =>
        /\ \A c \in ScalarLeaves(<<>>, op.val.m, FALSE) :
               /\ c.key \in DOMAIN entries
               /\ entries[c.key] \in {d.val : d \in {e \in ScalarLeaves(<<>>, op.val.m, FALSE) : e.key = c.key}}
        /\ \A key \in (DOMAIN entries) \ (DOMAIN pre.entries) :
               ~IsMap(entries[key]) /\ ~IsIxMap(entries[key])

APP_A == <<"A", "P", "P", "_", "A">>

\* C19 (as claimed): the flat key app.a holds false, the environment has
\* APP_A=true, and the overlay pass has run: GetBool("app.a") is true.
C19_EnvOverridesStore ==
    (/\ op.name = "buildAutomaticEnv" /\ ~fatal
     /\ APP_A \in DOMAIN op.val.m
     /\ Get(pre.entries, KeyAppA) = BoolV(FALSE))
        => GetBool(entries, KeyAppA)

\* C20 (as claimed): after the overlay pass, every key that was in the flat
\* map and whose derived environment variable is set holds the string value
\* of that variable, with or without the prefix in the key.
C20_OverlayWritesAtKey ==
    (op.name = "buildAutomaticEnv" /\ ~fatal) =>
        \A key \in DOMAIN pre.entries :
            envKey(key) \in DOMAIN op.val.m =>
                Get(entries, key) = StrV(op.val.m[envKey(key)])


\* ------------------------------------------------ typed reads, one caller

\* The keys whose environment-variable name is derived: logger.level, a-b.c,
\* Ab and the empty key.
KeyLoggerLevel == <<"l", "o", "g", "g", "e", "r", ".", "l", "e", "v", "e", "l">>
EnvNameKeys == {KeyLoggerLevel, <<"a", "-", "b", ".", "c">>, <<"A", "b">>, <<>>}

\* Options.envKey(key) is called; the store is left alone.
EnvKeyCall ==
    \E key \in EnvNameKeys : Step(Call("envKey", key, StrV(envKey(key))), store)

\* C21: the environment-variable name derived for a flat key is the prefix
\* segment APP, an underscore, and the key with every '.' and '-' replaced by
\* '_' and every lower-case letter by its capital, character by character;
\* for logger.level it is APP_LOGGER_LEVEL.
C21_EnvKeyDerivation ==
    op.name = "envKey" =>
        LET k == op.key
            r == op.val.s
        IN  /\ Len(r) = Len(k) + 4
            /\ SubSeq(r, 1, 4) = <<"A", "P", "P", "_">>
            /\ \A i \in 1..Len(k) :
                   IF k[i] \in {".", "-"} THEN r[i + 4] = "_"
                   ELSE IF \E j \in 1..26 : LowerCase[j] = k[i]
                        THEN \E j \in 1..26 : LowerCase[j] = k[i] /\ UpperCase[j] = r[i + 4]
                        ELSE r[i + 4] = k[i]
            /\ (k = KeyLoggerLevel =>
                   r = <<"A", "P", "P", "_", "L", "O", "G", "G", "E", "R", "_",
                         "L", "E", "V", "E", "L">>)

\* C21 witness: the name for logger.level has been derived.
C21_Witness == op.name = "envKey" /\ op.key = KeyLoggerLevel /\ Len(op.val.s) = 16

\* The key of the typed reads, x, and the flat key Set stores it under.
KeyX == <<"x">>
KeyAppX == <<"a", "p", "p", ".", "x">>

\* The strings callers store: the words GetBool takes for true in several
\* spellings, words it does not, numbers with and without sign, numbers
\* beyond 63 and 64 bits, and comma-separated lists.
TypedStrings ==
    { <<"1">>, <<"Y">>, <<"t">>, <<"Y", "e", "S">>, <<"t", "R", "u", "E">>,
      <<"O", "K">>, <<"o", "n">>,
      <<"0">>, <<"n", "o">>, <<"f", "a", "l", "s", "e">>, <<>>, <<"o", "n", "e">>,
      <<"-", "5">>, <<"+", "7">>, <<"0", "0", "7">>, <<"1", ".", "5">>, <<"1", "2", "a">>,
      TwoTo63, MaxUint64,
      <<"1", "8", "4", "4", "6", "7", "4", "4", "0", "7", "3", "7", "0", "9",
        "5", "5", "1", "6", "1", "6">>,
      <<"a", ",", "b", ",", "c">>, <<"1", ",", "2", ",", "3">>,
      <<"1", ",", "x", ",", "3">>, <<"1", ",", ",", "3">> }

\* The values callers store: those strings, nil, integers, booleans, and
\* native lists ([]int, []string, []interface{}).
TypedVals ==
    {StrV(s) : s \in TypedStrings}
        \cup {Nil, IntV(0), IntV(1), IntV(0 - 5), IntV(42), BoolV(TRUE), BoolV(FALSE)}
        \cup {IntsV(<<1, 2, 3>>), IntsV(<<>>),
              StrsV(<< <<"a">>, <<"b">>, <<"c">> >>),
              StrsV(<< <<"1">>, <<"x">>, <<"3">> >>),
              ListV(<<IntV(1), StrV(<<"x">>), IntV(3)>>),
              ListV(<<IntV(1), IntV(2), IntV(3)>>)}

\* Options.Set("x", val) with the values of the typed reads.
SetTyped == \E val \in TypedVals : Step(Call("Set", KeyX, val), SetOn(store, KeyX, val))

NextTyped == SetTyped \/ Reset \/ EnvKeyCall

\* Typed reads between Set calls, by a single caller.
SpecTyped == Init /\ [][NextTyped]_vars


\* The keys read back: the key as passed to Set, and the flat key.
TypedProbeKeys == {KeyX, KeyAppX}

\* The string w is word, up to the case of its letters.
SameWord(w, word) ==
    /\ Len(w) = Len(word)
    /\ \A i \in 1..Len(w) :
           \/ w[i] = word[i]
           \/ \E j \in 1..26 : UpperCase[j] = w[i] /\ LowerCase[j] = word[i]

\* The string form of a stored value: the string itself, nothing for nil,
\* the %v text of anything else.
StringForm(v) == IF v.k = "str" THEN v.s ELSE IF v = Nil THEN <<>> ELSE Sprint(v)

\* C22: GetBool(key) is true exactly when the key is stored and the string
\* form of its value is, up to case, one of 1, y, t, yes, true, ok, on; so it
\* is false for 0, no, false, the empty string, nil and an absent key.
C22_BoolCoercion ==
    \A key \in TypedProbeKeys :
        /\ GetBool(entries, key) =
               (/\ key \in DOMAIN entries
                /\ \E word \in { <<"1">>, <<"y">>, <<"t">>, <<"y", "e", "s">>,
                                 <<"t", "r", "u", "e">>, <<"o", "k">>, <<"o", "n">> } :
                       SameWord(StringForm(entries[key]), word))
        /\ (key \notin DOMAIN entries => ~GetBool(entries, key))
        /\ (key \in DOMAIN entries
              /\ entries[key] \in {StrV(<<"0">>), StrV(<<"n", "o">>), StrV(<<>>), Nil,
                                   StrV(<<"f", "a", "l", "s", "e">>), IntV(0), BoolV(FALSE)}
              => ~GetBool(entries, key))

\* C22 witness: a true word in mixed case is stored and GetBool is true.
C22_Witness ==
    /\ op.name = "Set"
    /\ op.val = StrV(<<"Y", "e", "S">>)
    /\ GetBool(entries, KeyAppX)
    /\ ~GetBool(entries, KeyX)


\* The spellings of the integer n that strconv reads as n: its decimal
\* digits, with leading zeros, and with a plus sign when it is not negative.
Spellings(n) ==
    IF n < 0 THEN {<<"-">> \o Itoa(0 - n), <<"-", "0">> \o Itoa(0 - n)}
    ELSE {Itoa(n), <<"0", "0">> \o Itoa(n), <<"+">> \o Itoa(n)}

\* The integer n as a result of GetInt and GetUint.
NumOf(n) == Num(n < 0, Itoa(IF n < 0 THEN 0 - n ELSE n))

\* s is written as an integer: an optional sign and one digit or more.
IntSyntax(s) ==
    LET body == IF Len(s) > 0 /\ s[1] \in {"+", "-"} THEN Tail(s) ELSE s
    IN  Len(body) > 0 /\ \A i \in 1..Len(body) : body[i] \in DigitChars

\* The integers whose spellings are looked for among the stored values.
SmallInts == (0 - 9)..50

\* C23: GetInt and GetUint give the integer the string form of the stored
\* value spells in base 10, and 0 when the key is absent, the value is nil,
\* or the string form spells no integer of 64 bits (for GetUint: no unsigned
\* integer, so a signed spelling gives 0).
C23_SilentNumericCoercion ==
    \A key \in TypedProbeKeys :
        IF key \notin DOMAIN entries \/ entries[key] = Nil
        THEN GetInt(entries, key) = Zero /\ GetUint(entries, key) = Zero
        ELSE LET s == StringForm(entries[key])
             IN  /\ \A n \in SmallInts :
                        s \in Spellings(n) =>
                            /\ GetInt(entries, key) = NumOf(n)
                            /\ GetUint(entries, key) =
                                   (IF s[1] \in {"+", "-"} THEN Zero ELSE NumOf(n))
                 /\ (~IntSyntax(s) =>
                        GetInt(entries, key) = Zero /\ GetUint(entries, key) = Zero)
                 /\ (s = TwoTo63 =>
                        GetInt(entries, key) = Zero /\ GetUint(entries, key) = Num(FALSE, TwoTo63))
                 /\ (s = MaxUint64 =>
                        GetInt(entries, key) = Zero /\ GetUint(entries, key) = Num(FALSE, MaxUint64))
                 /\ (Len(s) = 20 /\ s # MaxUint64 /\ IntSyntax(s) =>
                        GetInt(entries, key) = Zero /\ GetUint(entries, key) = Zero)

\* C23 witness: a text that is no integer is stored and both reads give 0,
\* after a negative integer was stored and read back by GetInt.
C23_Witness ==
    /\ op.name = "Set"
    /\ op.val = StrV(<<"1", "2", "a">>)
    /\ GetInt(entries, KeyAppX) = Zero
    /\ GetUint(entries, KeyAppX) = Zero
    /\ KeyAppX \in DOMAIN pre.entries
    /\ pre.entries[KeyAppX] = IntV(0 - 5)
    /\ GetInt(pre.entries, KeyAppX) = NumOf(0 - 5)
    /\ GetUint(pre.entries, KeyAppX) = Zero


ABC == << <<"a">>, <<"b">>, <<"c">> >>

IsListOrString(v) == v.k \in {"str", "strs", "ints", "list"}
ElemCount(v) ==
    IF v.k = "str" THEN Cardinality({i \in 1..Len(v.s) : v.s[i] = ","}) + 1
    ELSE Len(v.l)

\* The integers the strings of es spell, in order; a string that spells no
\* integer is left out.
RECURSIVE IntsSpelled(_)
IntsSpelled(es) ==
    IF Len(es) = 0 THEN <<>>
    ELSE (IF \E n \in SmallInts : es[1] \in Spellings(n)
          THEN <<CHOOSE n \in SmallInts : es[1] \in Spellings(n)>>
          ELSE <<>>) \o IntsSpelled(Tail(es))

KeyEmpty == <<>>
KeyADot == <<"a", ".">>
KeyADotDotB == <<"a", ".", ".", "b">>
KeyDot == <<".">>
KeyDotA == <<".", "a">>
MalformedKeys == {KeyEmpty, KeyADot, KeyADotDotB, KeyDot, KeyDotA, KeyA}

\* Options.SetNx(key, val) with those keys.  An unrecovered panic ends the
\* program.
SetNxMalformed ==
    \E key \in MalformedKeys, val \in InVals :
        /\ nops < MaxOps
        /\ ~fatal
        /\ IF SetNxPanics(key)
           THEN fatal' = TRUE /\ UNCHANGED <<entries, hierarchy>>
           ELSE /\ fatal' = FALSE
                /\ entries' = SetNxOn(store, key, val).entries
                /\ hierarchy' = SetNxOn(store, key, val).hierarchy
        /\ op' = Call("SetNx", key, val)
        /\ pre' = store
        /\ done' = done \cup {"SetNx"}
        /\ nops' = nops + 1
        /\ UNCHANGED <<entriesNil, rw, pc, arg, todo, live, work, snap, fsys, twin, help>>

NextKeys == SetNxMalformed

\* SetNx calls with malformed keys, by a single caller.
SpecKeys == Init /\ [][NextKeys]_vars

\* The segments of the keys, an empty string for each empty segment.
Segments(key) ==
    CASE key = KeyEmpty -> << <<>> >>
      [] key = KeyADot -> <<A, <<>> >>
      [] key = KeyADotDotB -> <<A, <<>>, B>>
      [] key = KeyDot -> << <<>>, <<>> >>
      [] key = KeyDotA -> << <<>>, A>>
      [] key = KeyA -> <<A>>

C26_MismatchReplaces ==
    op.name = "SetNx" /\ op.val # Nil =>
        /\ Descend(hierarchy, Split(op.key)) = Found(op.val)
        /\ \A key2 \in InKeys :
               Below(key2, op.key) => ~Descend(hierarchy, Split(key2)).found
        /\ \A key2 \in InKeys :
               Below(op.key, key2) => BranchAt(hierarchy, key2)

\* C26 witness: a branch has been replaced by a leaf (SetNx("a.b", 1) then
\* SetNx("a", 2): a is the leaf 2 and a.b is no longer reached).
C26_Witness ==
    /\ op = Call("SetNx", KeyA, IntV(2))
    /\ BranchAt(pre.hierarchy, KeyA)
    /\ Descend(pre.hierarchy, <<A, B>>) = Found(IntV(1))
    /\ Descend(hierarchy, <<A>>) = Found(IntV(2))
    /\ ~Descend(hierarchy, <<A, B>>).found

\* C26 second witness: a leaf has been replaced by a branch.
C26_WitnessLeafToBranch ==
    /\ op = Call("SetNx", KeyAB, IntV(1))
    /\ LeafAt(pre.hierarchy, KeyA)
    /\ BranchAt(hierarchy, KeyA)


\* ------------------------------------------------------------ saving

\* Sizes are counted in blocks of 1 KiB.  An encoder's output is the blocks
\* 1..n, handed to its writer in pieces; which bytes they hold is not
\* modelled.

\* The size of the buffer bufio.NewWriter makes (4096 bytes).
BufSize == 4

\* The blocks 1..n.
Blocks(n) == [i \in 1..n |-> i]

\* The sum of a sequence of sizes.
RECURSIVE Sum(_)
Sum(sizes) == IF Len(sizes) = 0 THEN 0 ELSE sizes[1] + Sum(Tail(sizes))

\* A bufio.Writer on an open file: out is what the file has received, buf
\* the buffered blocks, err the writer's sticky error.  full: writes to the
\* file fail (the disk is full).
NewWriter == [out |-> <<>>, buf |-> <<>>, err |-> FALSE]

\* (*bufio.Writer).Flush()
Flush(w, full) ==
    IF w.err \/ Len(w.buf) = 0 THEN w
    ELSE IF full THEN [w EXCEPT !.err = TRUE]
    ELSE [w EXCEPT !.out = w.out \o w.buf, !.buf = <<>>]

\* (*bufio.Writer).Write(p): while p is larger than the room left, a write
\* into an empty buffer goes to the file directly and any other fills the
\* buffer and flushes it; the rest is buffered.
RECURSIVE Write(_, _, _)
Write(w, p, full) ==
    LET room == BufSize - Len(w.buf)
    IN  IF Len(p) > room /\ ~w.err
        THEN IF Len(w.buf) = 0
             THEN IF full THEN [w EXCEPT !.err = TRUE]
                  ELSE [w EXCEPT !.out = w.out \o p]
             ELSE Write(Flush([w EXCEPT !.buf = w.buf \o SubSeq(p, 1, room)], full),
                        SubSeq(p, room + 1, Len(p)), full)
        ELSE IF w.err THEN w
        ELSE [w EXCEPT !.buf = w.buf \o p]

\* The writes of an encoder: the blocks of text cut into pieces of the
\* sizes given.
RECURSIVE WriteAll(_, _, _, _)
WriteAll(w, text, sizes, full) ==
    IF Len(sizes) = 0 THEN w
    ELSE WriteAll(Write(w, SubSeq(text, 1, sizes[1]), full),
                  SubSeq(text, sizes[1] + 1, Len(text)), Tail(sizes), full)

\* An Encode that returns without flushing its writer.
Encode_NoFlush(w, sizes, fails, full) ==
    LET text == Blocks(Sum(sizes))
        w2 == WriteAll(w, text, sizes, full)
    IN  [w |-> w2, err |-> fails \/ w2.err]

\* toml.NewEncoder(w).Encode(obj) on the bufio.Writer w.  NewEncoder wraps
\* its writer with bufio.NewWriter, which returns the writer it is given
\* when that is a bufio.Writer of that size already, so the encoder writes
\* into w itself; Encode returns the error of the encoding (fails: obj has a
\* value TOML cannot hold, met after the first piece) or else the result of
\* Flush on w.
Encode(w, sizes, fails, full) ==
    LET text == Blocks(Sum(sizes))
    IN  IF fails
        THEN [w |-> WriteAll(w, text, IF Len(sizes) = 0 THEN <<>> ELSE <<sizes[1]>>, full), err |-> TRUE]
        ELSE LET w2 == Flush(WriteAll(w, text, sizes, full), full)
             IN  [w |-> w2, err |-> w2.err]

\* The file names callers pass.
FileNames == {"f", "g"}

\* The encoder outputs, each as the sizes of the pieces written: nothing,
\* less than the buffer, exactly the buffer, more than the buffer in two
\* pieces, and one piece larger than the buffer followed by a small one.
PieceSizes == {<<>>, <<1>>, <<2, 2>>, <<3, 2>>, <<6, 1>>}

\* What goes wrong in a call: nothing, the file cannot be created, the
\* object cannot be encoded, the disk is full.
Failures == {"none", "create", "encode", "write"}

\* os.Create(name) and os.OpenFile(name, O_WRONLY|O_CREATE|O_TRUNC, perm):
\* the file is made empty and a new handle is open.
Handle(fs, name) == [file |-> name, fd |-> 3 + Cardinality(fs.open)]
Create(fs, name) ==
    [files |-> Put(fs.files, name, <<>>), open |-> fs.open \cup {Handle(fs, name)}]

\* SaveObjAsToml(obj, filename): the file system after the call and the
\* error returned.  The function has no f.Close().
SaveObjAsTomlOn(fs, name, sizes, failure) ==
    IF failure = "create" THEN [fsys |-> fs, err |-> TRUE]
    ELSE LET fs1 == Create(fs, name)
             r == Encode(NewWriter, sizes, failure = "encode", failure = "write")
         IN  [fsys |-> [fs1 EXCEPT !.files = Put(fs1.files, name, r.w.out)],
              err |-> r.err]

\* ioutil.WriteFile(filename, b, 0644): open, write, close.
WriteFile(fs, name, text, failure) ==
    IF failure = "create" THEN [fsys |-> fs, err |-> TRUE]
    ELSE LET fs1 == Create(fs, name)
             h == Handle(fs, name)
             out == IF failure = "write" THEN <<>> ELSE text
         IN  [fsys |-> [files |-> Put(fs1.files, name, out), open |-> fs1.open \ {h}],
              err |-> failure = "write"]

\* SaveAsYaml(filename) and SaveAsJSON(filename): the tree is marshalled
\* and, unless that fails, written with ioutil.WriteFile.
SaveMarshalledOn(fs, name, sizes, failure) ==
    IF failure = "encode" THEN [fsys |-> fs, err |-> TRUE]
    ELSE WriteFile(fs, name, Blocks(Sum(sizes)), failure)

\* One whole Save call: the file system becomes r.fsys.
SaveStep(fn, name, sizes, r) ==
    /\ nops < MaxOps
    /\ ~fatal
    /\ fsys' = r.fsys
    /\ op' = Call(fn, name, [k |-> "save", err |-> r.err, text |-> Blocks(Sum(sizes))])
    /\ pre' = store
    /\ done' = done \cup {fn}
    /\ nops' = nops + 1
    /\ UNCHANGED <<entries, hierarchy, entriesNil, rw, pc, arg, todo, live, work, snap, fatal, twin, help>>

\* SaveObjAsToml(obj, filename) for any object.
SaveObjAsToml ==
    \E name \in FileNames, sizes \in PieceSizes, failure \in Failures :
        SaveStep("SaveObjAsToml", name, sizes, SaveObjAsTomlOn(fsys, name, sizes, failure))

\* SaveAsToml(filename): SaveObjAsToml(GetHierarchyList(), filename)
SaveAsToml ==
    \E name \in FileNames, sizes \in PieceSizes, failure \in Failures :
        SaveStep("SaveAsToml", name, sizes, SaveObjAsTomlOn(fsys, name, sizes, failure))

\* SaveAsYaml(filename)
SaveAsYaml ==
    \E name \in FileNames, sizes \in PieceSizes, failure \in Failures :
        SaveStep("SaveAsYaml", name, sizes, SaveMarshalledOn(fsys, name, sizes, failure))

\* SaveAsJSON(filename)
SaveAsJSON ==
    \E name \in FileNames, sizes \in PieceSizes, failure \in Failures :
        SaveStep("SaveAsJSON", name, sizes, SaveMarshalledOn(fsys, name, sizes, failure))

NextSave == SaveObjAsToml \/ SaveAsToml \/ SaveAsYaml \/ SaveAsJSON

\* Save calls by a single caller.
SpecSave == Init /\ [][NextSave]_vars

SaveNames == {"SaveObjAsToml", "SaveAsToml", "SaveAsYaml", "SaveAsJSON"}

\* C28: when a Save function has returned, with or without an error, no
\* file handle is open.
C28_SaveClosesFile == op.name \in SaveNames => fsys.open = {}

\* C29: when SaveObjAsToml (or SaveAsToml, which calls it) has returned a
\* nil error, the named file holds every block of the encoded object.
C29_SavedFileComplete ==
    op.name \in {"SaveObjAsToml", "SaveAsToml"} /\ ~op.val.err =>
        /\ op.key \in DOMAIN fsys.files
        /\ fsys.files[op.key] = op.val.text

\* C29 witness: SaveObjAsToml has returned a nil error for an output that
\* did not fill the buffer, over a file that held a longer output.
C29_Witness ==
    /\ op.name = "SaveObjAsToml"
    /\ ~op.val.err
    /\ Len(op.val.text) = 1
    /\ fsys.files[op.key] = <<1>>
    /\ done = {"SaveObjAsToml"}
    /\ nops = 2


\* Caller p holds the lock or is inside a call for it: as a reader, as a
\* reader waiting behind a writer, or as the writer.
HoldsOrAwaits(p) == p \in rw.readers \/ p \in rw.rwait \/ rw.h = p

\* The positions from which a caller goes on to ask for the lock: outside
\* any operation, about to call s.rw.Lock(), and inside the loops of
\* buildAutomaticEnv and loopMap, which call Set and SetNx.
RequestPoints == {"idle", "wlock", "range", "loop"}

\* C30: a caller that is about to ask for the lock holds it in no way, and
\* a caller waiting for the read lock is not the writer the readers wait
\* behind, nor is the writer among the readers: the lock is never asked for
\* by the caller that has it.
C30_NoReentrantLock ==
    \A p \in Procs :
        /\ pc[p].at \in RequestPoints => ~HoldsOrAwaits(p)
        /\ rw.h = p => p \notin rw.readers /\ p \notin rw.rwait
        /\ pc[p].at = "rwait" => rw.h # p

\* C30 witness: a loopMap is inside s.rw.Lock() for its second SetNx, its
\* first one done, and waits as the writer behind another caller's GetBool.
C30_Witness ==
    \E p, q \in Procs :
        /\ p # q
        /\ At(p, "loopMap", "wwait")
        /\ work[p] = {}
        /\ DOMAIN entries # {}
        /\ At(q, "GetBool", "cs")
        /\ rw.h = p
        /\ q \in rw.readers

\* ---------------------------------------------------------------------------
\* A reset store beside a new one
\* ---------------------------------------------------------------------------

\* The longest run of calls followed here.
MaxTwinOps == 5

\* Options.SetNx(key, val), and the same call on the twin once there is one.
SetNxBoth ==
    \E key \in InKeys, val \in InVals :
        /\ nops < MaxTwinOps
        /\ ~fatal
        /\ LET s2 == SetNxOn(store, key, val)
           IN /\ entries' = s2.entries
              /\ hierarchy' = s2.hierarchy
        /\ twin' = IF "Reset" \in done THEN SetNxOn(twin, key, val) ELSE twin
        /\ op' = Call("SetNx", key, val)
        /\ pre' = store
        /\ done' = done \cup {"SetNx"}
        /\ nops' = nops + 1
        /\ UNCHANGED <<entriesNil, rw, pc, arg, todo, live, work, snap, fatal, fsys, help>>

\* Options.Reset(), and NewOptions() for the twin.
ResetBoth ==
    /\ nops < MaxTwinOps
    /\ ~fatal
    /\ LET s2 == ResetOn(store)
       IN /\ entries' = s2.entries
          /\ hierarchy' = s2.hierarchy
    /\ twin' = NewOptions
    /\ op' = Call("Reset", <<>>, Nil)
    /\ pre' = store
    /\ done' = done \cup {"Reset"}
    /\ nops' = nops + 1
    /\ UNCHANGED <<entriesNil, rw, pc, arg, todo, live, work, snap, fatal, fsys, help>>

NextTwin == SetNxBoth \/ ResetBoth
SpecTwin == Init /\ [][NextTwin]_vars

\* C31: after Reset, every Get on the store returns what the same Get returns
\* on a store made by NewOptions() that was given the same SetNx calls since.
C31_ResetLikeNew ==
    "Reset" \in done =>
        \A key \in InKeys : Get(entries, key) = Get(twin.entries, key)

\* C31: the reset store was asked to record nil for a key that was in its tree
\* before the reset, and the twin was asked the same.
C31_Witness ==
    /\ "Reset" \in done
    /\ op.name = "SetNx"
    /\ op.val = Nil
    /\ nilGuard(pre.hierarchy, op.key, op.val)
    /\ op.key \notin DOMAIN entries
    /\ op.key \in DOMAIN twin.entries

\* ---------------------------------------------------------------------------
\* The overlay pass and the shape of a key
\* ---------------------------------------------------------------------------

\* The dotted prefix itself and a key that starts with its text, no dot after it.
KeyApp == <<"a", "p", "p">>
KeyApplyX == <<"a", "p", "p", "l", "y", ".", "x">>
ShapeKeys == {KeyApp, KeyApplyX, KeyAppA}

\* The environments of this scenario: every set of the variables APP_APP,
\* APP_APPLY_X and APP_APP_A, each set to "1".
ShapeEnv == [n \in {envKey(key) : key \in ShapeKeys} |-> <<"1">>]
ShapeEnvirons == {Restrict(ShapeEnv, S) : S \in SUBSET DOMAIN ShapeEnv}

\* Options.SetNx(key, val) for these keys.
SetNxShape == \E key \in ShapeKeys, val \in EnvVals : Step(Call("SetNx", key, val), SetNxOn(store, key, val))

\* Options.buildAutomaticEnv(rootCmd) in one of these environments.
OverlayShape ==
    \E env \in ShapeEnvirons : \E r \in buildAutomaticEnv(store, env) :
        /\ nops < MaxOps
        /\ ~fatal
        /\ entries' = r.store.entries
        /\ hierarchy' = r.store.hierarchy
        /\ op' = Call("buildAutomaticEnv", <<>>, [k |-> "env", m |-> env])
        /\ pre' = store
        /\ done' = done \cup {"buildAutomaticEnv"}
        /\ nops' = nops + 1
        /\ fatal' = r.panic
        /\ UNCHANGED <<entriesNil, rw, pc, arg, todo, live, work, snap, fsys, twin, help>>

NextShape == SetNxShape \/ OverlayShape
SpecShape == Init /\ [][NextShape]_vars

\* The pass did not panic.
OverlayReturns == op.name = "buildAutomaticEnv" => ~fatal

\* The pass wrote the variable's value under the key it was derived from, for
\* the key that is the prefix and the key that starts with its text.
OverlayWritesUnderKey ==
    (op.name = "buildAutomaticEnv" /\ ~fatal) =>
        \A key \in {KeyApp, KeyApplyX} \cap DOMAIN pre.entries :
            envKey(key) \in DOMAIN op.val.m =>
                Get(entries, key) = StrV(op.val.m[envKey(key)])

\* The pass wrote under no other key.
OverlayWritesNoOtherKey ==
    (op.name = "buildAutomaticEnv" /\ ~fatal
        /\ DOMAIN pre.entries \subseteq {KeyApp, KeyApplyX}) =>
            \A key \in DOMAIN entries :
                /\ key \in DOMAIN pre.entries
                /\ envKey(key) \notin DOMAIN op.val.m => entries[key] = pre.entries[key]

\* C32 (as claimed): for the key app and the key apply.x the overlay pass does
\* not panic and, when the derived variable is set, writes its value under
\* that key and under no other key.
C32_OverlayHandlesKeyShapes ==
    /\ OverlayReturns
    /\ OverlayWritesUnderKey
    /\ OverlayWritesNoOtherKey

\* ---------------------------------------------------------------------------
\* What the overlay pass leaves alone
\* ---------------------------------------------------------------------------

\* The pass added no key to the flat map and removed none.
OverlayKeepsKeys ==
    (op.name = "buildAutomaticEnv" /\ ~fatal) => DOMAIN entries = DOMAIN pre.entries

\* Every key whose derived variable is not set kept its value in the flat map
\* and its node in the tree.
OverlayKeepsUnset ==
    (op.name = "buildAutomaticEnv" /\ ~fatal) =>
        \A key \in DOMAIN pre.entries :
            (envKey(key) \notin DOMAIN op.val.m /\ Len(key) > 0) =>
                /\ Get(entries, key) = pre.entries[key]
                /\ Descend(hierarchy, Split(key)) = Descend(pre.hierarchy, Split(key))

\* C33 (as claimed): the overlay pass adds no key to the flat map and removes
\* none, and every key whose derived environment variable is not set keeps
\* its value in the flat map and in the tree.
C33_OverlayFrame ==
    /\ OverlayKeepsKeys
    /\ OverlayKeepsUnset

\* ---------------------------------------------------------------------------
\* Ingestion and the order of a range over a map
\* ---------------------------------------------------------------------------

\* {a: {1: 1, "1": 2}}: two keys of one map with the same string form.
DocIxSame == (A :> IxMapV((IntV(1) :> IntV(1)) @@ (StrV(<<"1">>) :> IntV(2))))
\* {a: 1, "a.b": 2}: a dotted key that continues the path of a leaf.
DocAbove == (A :> IntV(1)) @@ (KeyAB :> IntV(2))

\* {"a.b": nil, a: {c: 1}}: a nil leaf beside a map of the same parent.
DocNil == (KeyAB :> Nil) @@ (A :> MapV((C :> IntV(1))))

IngestDocs == Docs \cup {DocIxSame, DocAbove, DocNil}

\* Options.loopMap("", doc) for these documents.
LoadDoc ==
    \E doc \in IngestDocs : \E s2 \in loopMap(store, <<>>, doc) :
        Step(Call("loopMap", <<>>, MapV(doc)), s2)

NextIngest == LoadDoc \/ Reset
SpecIngest == Init /\ [][NextIngest]_vars

\* The flat keys written for the entry k |-> v of a map ingested at kdot by
\* loopMap (ix false) or loopIxMap (ix true).
RECURSIVE WrittenKeys(_, _, _, _)
WrittenKeys(kdot, k, v, ix) ==
    LET key == IF ix THEN mxIx(kdot, k) ELSE mx(kdot, k)
    IN  IF IsIxMap(v) \/ (IsMap(v) /\ ~ix)
        THEN UNION {WrittenKeys(key, k2, v.m[k2], IsIxMap(v)) : k2 \in DOMAIN v.m}
        ELSE {key}

\* No two entries of the document, at any level, are written to the same flat
\* key or to flat keys one of which continues the other.
RECURSIVE PathsApart(_, _, _)
PathsApart(kdot, m, ix) ==
    /\ \A k1, k2 \in DOMAIN m :
           k1 # k2 =>
               \A x \in WrittenKeys(kdot, k1, m[k1], ix), y \in WrittenKeys(kdot, k2, m[k2], ix) :
                   x # y /\ ~Below(x, y)
    /\ \A k \in DOMAIN m :
           (IsIxMap(m[k]) \/ (IsMap(m[k]) /\ ~ix)) =>
               PathsApart(IF ix THEN mxIx(kdot, k) ELSE mx(kdot, k), m[k].m, IsIxMap(m[k]))

\* C34 (as claimed): a document ingested into an empty store leaves the same
\* flat map and the same tree for every order in which its maps are ranged
\* over, colliding paths included.
C34_IngestionDeterministic ==
    (op.name = "loopMap" /\ pre = NewOptions) =>
        \A s2 \in loopMap(NewOptions, <<>>, op.val.m) : s2 = store

\* C34 (amended): the same, for documents no two entries of which are written
\* to the same flat key or to flat keys one of which continues the other.
C34_DeterministicOnDistinctPaths ==
    (op.name = "loopMap" /\ pre = NewOptions /\ PathsApart(<<>>, op.val.m, FALSE)) =>
        \A s2 \in loopMap(NewOptions, <<>>, op.val.m) : s2 = store

\* C34 witness: {a: {b: 1, 1: 2}}, two entries in a map keyed by arbitrary
\* scalars, was ingested into an empty store.
C34_Witness ==
    /\ op.name = "loopMap"
    /\ pre = NewOptions
    /\ op.val.m = DocIx
    /\ PathsApart(<<>>, op.val.m, FALSE)
    /\ Cardinality(DOMAIN entries) = 2

\* ---------------------------------------------------------------------------
\* DumpAsString beside the writers
\* ---------------------------------------------------------------------------

\* C35 (as claimed): DumpAsString never reads the flat map or the tree while
\* another caller is inside the critical section of SetNx or Reset.
C35_DumpUnderLock ==
    [][\A p \in Procs :
          (DumpEntries(p) \/ DumpTree(p)) => \A q \in Procs \ {p} : ~InWriteCS(q)]_vars

\* ---------------------------------------------------------------------------
\* The help screen: wrapping a description
\* ---------------------------------------------------------------------------

\* The longest description (in pieces), the widest left column and the widest
\* terminal.
MaxStr == 3
MaxL == 1
MaxCols == 5

\* A description is a Go string, a sequence of bytes.  It is made of a
\* letter, one two-byte UTF-8 character, an ANSI colour sequence (ESC [ 1 m)
\* and the single bytes of such a sequence.
ESC == "ESC"
HelpTokens == {<<"x">>, <<"C3", "A9">>, <<ESC, "[", "1", "m">>, <<ESC>>, <<"[">>, <<"1">>, <<"m">>}

\* []rune(s): the two-byte character is one rune; a byte of it that stands
\* alone is decoded as U+FFFD.
RECURSIVE Runes(_)
Runes(b) ==
    IF Len(b) = 0 THEN <<>>
    ELSE IF b[1] = "C3" /\ Len(b) >= 2 /\ b[2] = "A9"
         THEN <<"U+00E9">> \o Runes(SubSeq(b, 3, Len(b)))
    ELSE IF b[1] \in {"C3", "A9"} THEN <<"U+FFFD">> \o Runes(Tail(b))
    ELSE <<b[1]>> \o Runes(Tail(b))

\* The number of bytes WriteRune writes for the rune r.
RuneLen(r) == IF r = "U+00E9" THEN 2 ELSE IF r = "U+FFFD" THEN 3 ELSE 1

\* strings.Builder.Len() and len(string): the length in bytes of the runes rs.
RECURSIVE ByteLen(_)
ByteLen(rs) == IF Len(rs) = 0 THEN 0 ELSE RuneLen(rs[1]) + ByteLen(Tail(rs))

\* unicode.IsDigit(c)
IsDigit(c) == c \in {"0", "1", "2", "3", "4", "5", "6", "7", "8", "9"}

\* The first loop of getTextPiece from the rune src[i] on: sb, tried,
\* tryEscape, tryAnsiColor, tryPos and escapeSeqs are the fields of st.
RECURSIVE scanRunes(_, _, _, _)
scanRunes(src, i, want, st) ==
    IF i > Len(src) THEN st
    ELSE LET c == src[i]
         IN  IF c = ESC
             THEN scanRunes(src, i + 1, want,
                      [st EXCEPT !.tryEscape = TRUE, !.tryAnsiColor = FALSE,
                                 !.tryPos = ByteLen(st.sb), !.tried = <<c>>])
             ELSE IF st.tryEscape /\ st.tryAnsiColor /\ IsDigit(c)
             THEN scanRunes(src, i + 1, want, [st EXCEPT !.tried = Append(st.tried, c)])
             ELSE IF st.tryEscape /\ st.tryAnsiColor /\ c = "m"
             THEN scanRunes(src, i + 1, want,
                      [st EXCEPT !.tried = Append(st.tried, c),
                                 !.tryEscape = FALSE,
                                 !.escapeSeqs = Append(st.escapeSeqs,
                                     [pos |-> st.tryPos, seq |-> Append(st.tried, c)])])
             ELSE IF st.tryEscape /\ ~st.tryAnsiColor /\ c = "["
             THEN scanRunes(src, i + 1, want,
                      [st EXCEPT !.tried = Append(st.tried, c), !.tryAnsiColor = TRUE])
             ELSE LET sb == IF st.tryEscape THEN st.sb \o st.tried ELSE st.sb
                  IN  IF ByteLen(sb) >= want
                      THEN [st EXCEPT !.sb = sb]
                      ELSE scanRunes(src, i + 1, want, [st EXCEPT !.sb = Append(sb, c)])

\* The second loop of getTextPiece: the runes outs with each escape sequence
\* put back at its position, from the k-th sequence on.
RECURSIVE weave(_, _, _, _)
weave(outs, escapeSeqs, k, last) ==
    IF k > Len(escapeSeqs) THEN SubSeq(outs, last + 1, Len(outs))
    ELSE SubSeq(outs, last + 1, escapeSeqs[k].pos) \o escapeSeqs[k].seq
             \o weave(outs, escapeSeqs, k + 1, escapeSeqs[k].pos)

\* getTextPiece(str, start, want): the piece as runes, or a panic.  tryPos
\* is a length in bytes and is used as an index into the runes outs: when it
\* is past their end, a slice expression of the second loop panics.
getTextPiece(str, start, want) ==
    LET st == scanRunes(Runes(SubSeq(str, start + 1, Len(str))), 1, want,
                  [sb |-> <<>>, tried |-> <<>>, tryEscape |-> FALSE,
                   tryAnsiColor |-> FALSE, tryPos |-> 0, escapeSeqs |-> <<>>])
    IN  IF \E k \in 1..Len(st.escapeSeqs) : st.escapeSeqs[k].pos > Len(st.sb)
        THEN [panic |-> TRUE, out |-> <<>>]
        ELSE [panic |-> FALSE, out |-> weave(st.sb, st.escapeSeqs, 1, 0)]

\* The descriptions printed: up to MaxStr of these pieces, in any order.
RECURSIVE Flatten(_)
Flatten(ts) == IF Len(ts) = 0 THEN <<>> ELSE ts[1] \o Flatten(Tail(ts))

HelpStrs == {Flatten(ts) : ts \in UNION {[1..n -> HelpTokens] : n \in 0..MaxStr}}

HelpAt(at, fn, str, s2w, ix) == [at |-> at, fn |-> fn, str |-> str, s2w |-> s2w, ix |-> ix]

\* One line of prCommands or prFlags up to the wrapping loop: the right
\* column is printed whole when it fits or under test, otherwise its first
\* piece is printed and the loop starts behind it.
printLine(fn) ==
    /\ help.at = "idle"
    /\ \E str \in HelpStrs, maxL \in 0..MaxL, cols \in 0..MaxCols, InTesting \in BOOLEAN :
        /\ LET ww == maxL + 2
               s2w == cols - ww
           IN  IF s2w < Len(str) /\ ~InTesting
               THEN LET firstPiece == getTextPiece(str, 0, s2w)
                    IN  help' = IF firstPiece.panic
                                THEN HelpAt("panic", fn, str, s2w, 0)
                                ELSE HelpAt("wrap", fn, str, s2w, ByteLen(firstPiece.out))
               ELSE help' = HelpAt("printed", fn, str, s2w, 0)
        /\ UNCHANGED <<entries, hierarchy, op, pre, done, nops, entriesNil, rw, pc, arg, todo, live, work, snap, fatal, fsys, twin>>

\* ExecWorker.prCommands: one line of a section.
prCommands == printLine("prCommands")

\* ExecWorker.prFlags: one line of a section.
prFlags == printLine("prFlags")

\* The body of "for ix := len(firstPiece); ix < len(str);".
wrapPiece ==
    /\ help.at = "wrap"
    /\ help.ix < Len(help.str)
    /\ LET rs == getTextPiece(help.str, help.ix, help.s2w)
       IN  help' = IF rs.panic
                   THEN [help EXCEPT !.at = "panic"]
                   ELSE [help EXCEPT !.ix = help.ix + ByteLen(rs.out)]
    /\ UNCHANGED <<entries, hierarchy, op, pre, done, nops, entriesNil, rw, pc, arg, todo, live, work, snap, fatal, fsys, twin>>

\* The loop ends: ix < len(str) is false.
wrapEnd ==
    /\ help.at = "wrap"
    /\ help.ix >= Len(help.str)
    /\ help' = [help EXCEPT !.at = "printed"]
    /\ UNCHANGED <<entries, hierarchy, op, pre, done, nops, entriesNil, rw, pc, arg, todo, live, work, snap, fatal, fsys, twin>>

NextHelp == prCommands \/ prFlags \/ wrapPiece \/ wrapEnd
SpecHelp == Init /\ [][NextHelp]_vars

\* C36 (as claimed): in the wrapping loop of prCommands and prFlags, with a
\* remainder that is not empty, for every description and every width, zero
\* and negative widths included, getTextPiece returns a piece that is not
\* empty, so the offset advances and the loop finishes.
C36_WrappingAdvances ==
    (help.at = "wrap" /\ help.ix < Len(help.str)) =>
        LET rs == getTextPiece(help.str, help.ix, help.s2w)
        IN  ~rs.panic /\ ByteLen(rs.out) > 0

=============================================================================
